---- MODULE Spec2Model ----
(***************************************************************************)
(* Echo state network core of notebooks/03_echo_state_networks.ipynb:      *)
(* esn_collect (state collection), esn_fit (ridge readout) and esn_auto    *)
(* (autonomous iteration), as a state machine with one action per          *)
(* statement group of each function.                                       *)
(*                                                                         *)
(* Numbers.  States, inputs, targets and the bias zeta are fixed-point     *)
(* values: the integer v stands for the real v / Q.  The matrices A, C, W  *)
(* hold whole numbers, so A @ x, C @ z, x @ W and A + C @ W.T are exact.   *)
(* The leak rate alpha is the integer a standing for a / Q, 0 <= a <= Q.   *)
(* An expression is evaluated exactly and rounded to the nearest grid      *)
(* value when it is stored in a state array.  The ridge system is solved   *)
(* exactly; its solution is a pair <<numerators, denominator>>.            *)
(* Arrays are sequences of rows; Row(M, i) is the code's M[i,:] (0-based). *)
(***************************************************************************)
EXTENDS Integers, Sequences, FiniteSets, TLC

\* ---------------------------------------------------------------- bounds
\* Fixed-point resolution: the grid step is 1/Q.
Q == 2
\* Longest input sequence handed to esn_collect / esn_fit.
MaxT == 3
\* Largest horizon handed to esn_auto.
MaxH == 3
\* Largest num_steps handed to mackey_glass.
MaxSteps == 4
\* Most rows of an array handed to PMDataset.
MaxRows == 4
\* Largest seq_len handed to PMDataset and make_lstm_preds.
MaxSeqLen == 3

\* ------------------------------------------------------------ arithmetic
Abs(x) == IF x < 0 THEN -x ELSE x

Min(a, b) == IF a < b THEN a ELSE b

\* n / d rounded to the nearest integer, halves away from zero (d > 0).
RoundDiv(n, d) == IF n >= 0 THEN (2 * n + d) \div (2 * d) ELSE -((2 * (-n) + d) \div (2 * d))

\* The float range.  A whole-number quantity is finite up to FloatMax, which
\* stands for the largest double; a grid quantity v stands for v / Q and is
\* finite up to GridMax.  PosInf, NegInf and NaN stand for inf, -inf and nan.
FloatMax == 1000000

GridMax == Q * FloatMax

PosInf == 1000000000

NegInf == -PosInf

NaN == PosInf + 1

IsFinite(v) == v # PosInf /\ v # NegInf /\ v # NaN

\* A float keeps a limited number of digits: in a + b the smaller term is
\* lost when the larger one is Precision times as large.
Precision == 100000

\* a + b in floats whose largest finite value is lim.
FAdd(lim, a, b) ==
    IF a = NaN \/ b = NaN THEN NaN
    ELSE IF a = PosInf THEN (IF b = NegInf THEN NaN ELSE PosInf)
    ELSE IF a = NegInf THEN (IF b = PosInf THEN NaN ELSE NegInf)
    ELSE IF b = PosInf \/ b = NegInf THEN b
    ELSE IF b # 0 /\ Abs(a) \div Precision >= Abs(b) THEN a
    ELSE IF a # 0 /\ Abs(b) \div Precision >= Abs(a) THEN b
    ELSE IF a + b > lim THEN PosInf
    ELSE IF a + b < -lim THEN NegInf
    ELSE a + b

\* a * b in floats whose largest finite value is lim.
FMul(lim, a, b) ==
    IF a = NaN \/ b = NaN THEN NaN
    ELSE IF ~IsFinite(a) \/ ~IsFinite(b)
         THEN IF a = 0 \/ b = 0 THEN NaN
              ELSE IF (a > 0) = (b > 0) THEN PosInf ELSE NegInf
    ELSE IF a = 0 \/ b = 0 THEN 0
    ELSE IF Abs(a) > lim \div Abs(b)
         THEN IF (a > 0) = (b > 0) THEN PosInf ELSE NegInf
    ELSE a * b

\* A squashing function that does not saturate.
Tanh_linear(v) == v

\* np.tanh on the grid: the Pade approximant x(27 + x^2) / (27 + 9x^2) of
\* tanh, rounded to the nearest grid value and saturating at +-1 (= +-Q).
\* Odd, monotone, and equal to round(Q * tanh(v / Q)) for Q <= 4.
\* tanh(inf) = 1, tanh(-inf) = -1, tanh(nan) = nan.
Tanh(v) ==
    IF v = NaN THEN NaN
    ELSE IF v = PosInf \/ v >= 4 * Q THEN Q
    ELSE IF v = NegInf \/ v <= -(4 * Q) THEN -Q
    ELSE LET a == Abs(v)
             r == Min(Q, RoundDiv(a * (27 * Q * Q + a * a), 27 * Q * Q + 9 * a * a))
         IN  IF v < 0 THEN -r ELSE r

\* ---------------------------------------------------------------- arrays
None == <<>>

Row(M, i) == M[i + 1]

InBounds(M, i) == i >= 0 /\ i < Len(M)

NRows(M) == Len(M)

NCols(M) == IF Len(M) = 0 THEN 0 ELSE Len(M[1])

\* np.zeros([n, m])
Zeros(n, m) == [i \in 1..n |-> [j \in 1..m |-> 0]]

RECURSIVE SumTo(_, _)
\* f[1] + ... + f[n]
SumTo(f, n) == IF n = 0 THEN 0 ELSE f[n] + SumTo(f, n - 1)

Dot(u, v) == SumTo([k \in 1..Len(u) |-> u[k] * v[k]], Len(u))

\* M @ x for a matrix M and a vector x
MatVec(M, x) == [i \in 1..Len(M) |-> Dot(M[i], x)]

\* M.T
Transpose(M) == [j \in 1..NCols(M) |-> [i \in 1..Len(M) |-> M[i][j]]]

\* x @ M for a vector x and a matrix M
VecMat(x, M) == MatVec(Transpose(M), x)

\* M @ N
MatMul(M, N) == [i \in 1..Len(M) |-> VecMat(M[i], N)]

VecAdd(u, v) == [k \in 1..Len(u) |-> u[k] + v[k]]

MatAdd(M, N) == [i \in 1..Len(M) |-> VecAdd(M[i], N[i])]

MatScale(c, M) == [i \in 1..Len(M) |-> [j \in 1..Len(M[i]) |-> c * M[i][j]]]

\* The same products and sums in floats whose largest finite value is lim.
RECURSIVE FSum(_, _, _)
FSum(lim, f, k) == IF k = 0 THEN 0 ELSE FAdd(lim, FSum(lim, f, k - 1), f[k])

FDot(lim, u, v) == FSum(lim, [k \in 1..Len(u) |-> FMul(lim, u[k], v[k])], Len(u))

FMatVec(lim, M, x) == [i \in 1..Len(M) |-> FDot(lim, M[i], x)]

FVecMat(lim, x, M) == FMatVec(lim, Transpose(M), x)

FMatMul(lim, M, N) == [i \in 1..Len(M) |-> FVecMat(lim, M[i], N)]

FVecAdd(lim, u, v) == [k \in 1..Len(u) |-> FAdd(lim, u[k], v[k])]

FMatAdd(lim, M, N) == [i \in 1..Len(M) |-> FVecAdd(lim, M[i], N[i])]

\* np.eye(k)
Eye(k) == [i \in 1..k |-> [j \in 1..k |-> IF i = j THEN 1 ELSE 0]]

\* ----------------------------------------------------------- linear solve
\* M with row i and column j removed
Minor(M, i, j) ==
    [r \in 1..(Len(M) - 1) |->
        [c \in 1..(Len(M) - 1) |->
            M[IF r < i THEN r ELSE r + 1][IF c < j THEN c ELSE c + 1]]]

RECURSIVE Det(_)
\* Determinant, by expansion along the first row.
Det(M) ==
    IF Len(M) = 0 THEN 1
    ELSE IF Len(M) = 1 THEN M[1][1]
    ELSE SumTo([j \in 1..Len(M) |->
                   (IF j % 2 = 1 THEN 1 ELSE -1) * M[1][j] * Det(Minor(M, 1, j))],
               Len(M))

\* M with column j replaced by the vector b
ReplaceCol(M, j, b) ==
    [r \in 1..Len(M) |-> [c \in 1..Len(M) |-> IF c = j THEN b[r] ELSE M[r][c]]]

\* A solver that never reports a singular system.
Singular_never(M) == FALSE

\* np.linalg.solve raises LinAlgError("Singular matrix") on a singular system.
Singular(M) == Det(M) = 0

\* np.linalg.solve(M, B) for a non-singular M: the exact solution of
\* M @ W = B as <<numerators, denominator>>, W = numerators / denominator
\* (Cramer's rule).
Solve(M, B) ==
    << [i \in 1..Len(M) |->
           [j \in 1..NCols(B) |-> Det(ReplaceCol(M, i, Transpose(B)[j]))]],
       Det(M) >>

\* ------------------------------------------------------------------ state
VARIABLES
    A, C, zeta, alpha,      \* the reservoir: recurrent and input matrix, bias, leak rate
    pc,                     \* the statement the running call is at
    op,                     \* the top-level call: "none", "collect", "fit", "auto"
    exc,                    \* the exception the call raised, or "none"
    ret,                    \* the value the call returned, or None
    Z, Y, L,                \* esn_collect / esn_fit arguments: inputs, targets, penalty
    X, t,                   \* esn_collect locals: state array, loop index
    W_hat, Y_fit, Error,    \* esn_fit locals
    X0, h, W,               \* esn_auto arguments: seed state, horizon, readout
    R, Xh, Yh,              \* esn_auto locals: folded matrix, states, outputs
    iters                   \* loop bodies executed by the running call

reservoir == <<A, C, zeta, alpha>>

esn_vars == <<A, C, zeta, alpha, pc, op, exc, ret, Z, Y, L, X, t, W_hat, Y_fit,
              Error, X0, h, W, R, Xh, Yh, iters>>

\* The state of a mackey_glass call.
VARIABLES
    mg_pc,                  \* "idle", "delay", "update", "done", "raised"
    beta, gamma, mg_n, tau, mg_a, delta_t, num_steps,   \* the arguments
                            \* (mg_n is n, mg_a is a)
    mg_x,                   \* the local array x
    mg_t,                   \* the loop index t of mackey_glass
    delay_index,            \* the local delay_index
    trajectory              \* the value returned, or None

mg_vars == <<mg_pc, beta, gamma, mg_n, tau, mg_a, delta_t, num_steps, mg_x, mg_t,
             delay_index, trajectory>>

\* The state of a reservoir construction ("generate ESN parameters" and
\* "normalize" of esn_plot / esn_lorenz).
VARIABLES
    stream,                 \* the values the bit generator yields, per seed
    ri_pc,                  \* "idle", "draw_A", ..., "normalize_C", "done"
    ri_Dx, rho, ri_gamma,   \* the arguments Dx, rho, gamma
    rng,                    \* the local rng: <<seed, position>>, or None
    ri_A, ri_C, ri_zeta,    \* the locals A, C, zeta
    first,                  \* the first construction: <<arguments, result>>
    between                 \* what was constructed since: "none", "other"
                            \* (other arguments), "other_then_same"

ri_vars == <<stream, ri_pc, ri_Dx, rho, ri_gamma, rng, ri_A, ri_C, ri_zeta,
             first, between>>

\* The state of two workers that call esn_collect and esn_auto at the same
\* time; each entry is a function of the worker.
VARIABLES
    w_pc,                   \* the worker's position, as pc
    w_op,                   \* the function it is in: "none", "collect", "auto"
    w_Z,                    \* its argument Z of esn_collect
    w_X0, w_h, w_W,         \* its arguments X0, h, W of esn_auto
    w_R, w_t,               \* its locals R and t
    w_ret,                  \* the value its call returned, or None
    heapX, heapY,           \* the arrays np.zeros allocated: X / Xh, and Yh
    w_overlapped            \* it took a step while the other was inside a call

conc_vars == <<w_pc, w_op, w_Z, w_X0, w_h, w_W, w_R, w_t, w_ret, heapX, heapY,
               w_overlapped>>

\* The state of one run of the train-then-forecast pipeline (the second
\* esn_plot): its arguments, its data and what it has plotted.
VARIABLES
    series,                 \* the observations Y, a (T+h) x 1 array
    p_T, p_h,               \* the arguments T and h
    p_fit,                  \* (W_hat, X, Y_fit, _) as esn_fit returned them
    drawn                   \* the "ESN Fit & Autonomous" panel's test part:
                            \* per point <<index into time, Y_test, Yh>>

pipe_vars == <<series, p_T, p_h, p_fit, drawn>>

\* No pipeline runs.
no_pipeline ==
    series = <<>> /\ p_T = 0 /\ p_h = 0 /\ p_fit = <<>> /\ drawn = <<>>

\* The state of a call of lorenz_attractor.
VARIABLES
    lz_pc,                  \* "idle", "loop", "done"
    lz_sigma, lz_rho, lz_beta,  \* the arguments sigma, rho, beta
    initial_state,          \* the argument initial_state
    lz_delta_t,             \* the argument delta_t, in tenths
    lz_num_steps,           \* the argument num_steps
    lz_x, lz_y, lz_z,       \* the locals x, y, z
    x_vals, y_vals, z_vals, \* the lists x_vals, y_vals, z_vals
    lz_ret                  \* the returned (x, y, z) arrays, or None

lz_vars == <<lz_pc, lz_sigma, lz_rho, lz_beta, initial_state, lz_delta_t,
             lz_num_steps, lz_x, lz_y, lz_z, x_vals, y_vals, z_vals, lz_ret>>

\* No lorenz_attractor call runs.
lz_idle ==
    /\ lz_pc = "idle"
    /\ lz_sigma = 0 /\ lz_rho = 0 /\ lz_beta = 0 /\ initial_state = <<>>
    /\ lz_delta_t = 0 /\ lz_num_steps = 0
    /\ lz_x = 0 /\ lz_y = 0 /\ lz_z = 0
    /\ x_vals = <<>> /\ y_vals = <<>> /\ z_vals = <<>>
    /\ lz_ret = <<>>

\* The state of a call of nonlin_ar.
VARIABLES
    nar_pc,                 \* "idle", "first", "loop", "done", "raised"
    nar_n, nar_init,        \* the arguments n and init
    nar_E, nar_X,           \* the arrays E and X, on the grid of step 1/GridX
    nar_t,                  \* the loop variable t
    nar_exc,                \* the exception raised, or "none"
    nar_ret                 \* the returned (X[init:], E[init:]), or None

nar_vars == <<nar_pc, nar_n, nar_init, nar_E, nar_X, nar_t, nar_exc, nar_ret>>

\* No nonlin_ar call runs.
nar_idle ==
    /\ nar_pc = "idle"
    /\ nar_n = 0 /\ nar_init = 0
    /\ nar_E = <<>> /\ nar_X = <<>>
    /\ nar_t = 0
    /\ nar_exc = "none"
    /\ nar_ret = <<>>

\* The state of a call of ar_process.
VARIABLES
    ar_pc,                  \* "idle", "loop", "done"
    ar_phi, ar_n,           \* the arguments phi and n
    ar_noise,               \* what np.random.randn(n + len(phi)) * sigma gave
    ar_y,                   \* the array y
    ar_i,                   \* the loop variable i
    ar_ret                  \* the returned n x 1 array, or None

ar_vars == <<ar_pc, ar_phi, ar_n, ar_noise, ar_y, ar_i, ar_ret>>

\* No ar_process call runs.
ar_idle ==
    /\ ar_pc = "idle"
    /\ ar_phi = <<>> /\ ar_n = 0
    /\ ar_noise = <<>> /\ ar_y = <<>>
    /\ ar_i = 0
    /\ ar_ret = <<>>

\* The state of the PMDataset objects and of a call of make_lstm_preds.
VARIABLES
    ds,                     \* a PMDataset object: [X, y, added, seq_len], or None
    ds_args,                \* the arguments it was built from: <<X, y, seq_len, enforce_shape>>
    ds_len,                 \* the last value len(ds) returned, or -1
    ds_idx, ds_item,        \* the last ds[idx] evaluated: idx and the pair returned
    pm_pc,                  \* make_lstm_preds: "idle", "city", "predict", "done"
    pm_seq_len,             \* its argument seq_len
    df_test,                \* its argument df_test: per city, the feature rows
    pm_city,                \* the position of the loop over cities (1-based)
    pm_weight,              \* the fitted network, nnet
    dsy,                    \* the local dsy, or None
    pm_it,                  \* the position of the loop over dly
    y_pred,                 \* the local list y_pred
    preds,                  \* the dict preds, as a sequence over the cities done
    pm_ret                  \* what make_lstm_preds returned, or None

pm_vars == <<ds, ds_args, ds_len, ds_idx, ds_item, pm_pc, pm_seq_len, df_test,
             pm_city, pm_weight, dsy, pm_it, y_pred, preds, pm_ret>>

\* No PMDataset exists and make_lstm_preds is not running.
pm_idle ==
    /\ ds = <<>> /\ ds_args = <<>> /\ ds_len = -1 /\ ds_idx = -1 /\ ds_item = <<>>
    /\ pm_pc = "idle" /\ pm_seq_len = 0 /\ df_test = <<>> /\ pm_city = 0
    /\ pm_weight = 0 /\ dsy = <<>> /\ pm_it = 0 /\ y_pred = <<>> /\ preds = <<>>
    /\ pm_ret = <<>>

\* What the echo state network's functions do not touch.
beside_esn == <<mg_vars, ri_vars, conc_vars, pipe_vars, lz_vars, nar_vars, ar_vars, pm_vars>>

\* What mackey_glass does not touch.
beside_mg == <<esn_vars, ri_vars, conc_vars, pipe_vars, lz_vars, nar_vars, ar_vars, pm_vars>>

\* What a reservoir construction does not touch.
beside_ri == <<esn_vars, mg_vars, conc_vars, pipe_vars, lz_vars, nar_vars, ar_vars, pm_vars>>

\* What the workers do not touch.
beside_conc == <<esn_vars, mg_vars, ri_vars, pipe_vars, lz_vars, nar_vars, ar_vars, pm_vars>>

\* What the pipeline (which drives the echo state network) does not touch.
beside_pipe == <<mg_vars, ri_vars, conc_vars, lz_vars, nar_vars, ar_vars, pm_vars>>

\* What lorenz_attractor does not touch.
beside_lz == <<esn_vars, mg_vars, ri_vars, conc_vars, pipe_vars, nar_vars, ar_vars, pm_vars>>

\* What nonlin_ar does not touch.
beside_nar == <<esn_vars, mg_vars, ri_vars, conc_vars, pipe_vars, lz_vars, ar_vars, pm_vars>>

\* What ar_process does not touch.
beside_ar == <<esn_vars, mg_vars, ri_vars, conc_vars, pipe_vars, lz_vars, nar_vars, pm_vars>>

\* What PMDataset and make_lstm_preds do not touch.
beside_pm == <<esn_vars, mg_vars, ri_vars, conc_vars, pipe_vars, lz_vars, nar_vars, ar_vars>>

vars == <<esn_vars, mg_vars, ri_vars, conc_vars, pipe_vars, lz_vars, nar_vars, ar_vars, pm_vars>>

\* ----------------------------------------------------------------- inputs
\* Recurrent matrices (Dx = 2): zero, and an upper-triangular one.
SetA == { <<<<0, 0>>, <<0, 0>>>>, <<<<1, 1>>, <<0, -1>>>> }

\* Input matrices (Dx x 1): equal rows, opposite rows, zero.
SetC == { <<<<1>>, <<1>>>>, <<<<1>>, <<-1>>>>, <<<<0>>, <<0>>>> }

\* Bias vectors, on the grid.
SetZeta == { <<0, 0>>, <<1, -1>> }

\* Leak rates 0, 1/Q, ..., 1.
SetAlpha == 0..Q

\* Values of one input or target coordinate, on the grid.
InVals == {-Q, 0, 1}

\* Input sequences: T x 1 arrays, 1 <= T <= MaxT.
InputSeqs == UNION { [1..n -> {<<v>> : v \in InVals}] : n \in 1..MaxT }

\* Input sequences of two-coordinate vectors, which the input matrices (one
\* column) do not fit.
InputSeqs2 == { [i \in 1..n |-> <<1, 0>>] : n \in 1..MaxT }

\* Targets for an input sequence: the inputs themselves, or a constant 1/Q.
TargetsFor(Zin) == { Zin, [i \in 1..Len(Zin) |-> <<1>>] }

\* Ridge penalties, in units of 1/Q^2.
SetL == {0, 1}

\* Seed states, on the grid.
SetX0 == { <<0, 0>>, <<1, 1>>, <<Q, -1>> }

\* Readout weights (Dx x 1).
SetW == { <<<<1>>, <<0>>>>, <<<<1>>, <<-1>>>>, <<<<0>>, <<0>>>> }

\* Readout weights with two outputs (Dx x 2), which the input matrices do not fit.
SetW2 == { <<<<1, 0>>, <<0, 1>>>> }

\* Readout weights (Dx x 1) with entries as large as a float can hold.
SetWHuge == { <<<<FloatMax>>, <<-FloatMax>>>>, <<<<FloatMax>>, <<0>>>> }

\* Horizons 0..MaxH.
SetH == 0..MaxH

\* A negative horizon.
SetHNegative == {-1}

\* ------------------------------------------------------------ esn_collect
\* Z.shape[0]
T == NRows(Z)

\* A.shape[0]
Dx == NRows(A)

\* alpha * prev + (1 - alpha) * tanh(pre), entry by entry, stored on the grid
Leak(prev, pre) ==
    [i \in 1..Len(pre) |->
        LET sum == FAdd(Q * GridMax, FMul(Q * GridMax, alpha, prev[i]),
                        FMul(Q * GridMax, Q - alpha, Tanh(pre[i])))
        IN  IF IsFinite(sum) THEN RoundDiv(sum, Q) ELSE sum]

\* The index of the input row the first state is computed from: Z[1,:].
FirstIndex == 1

\* (1-alpha) * np.tanh(C @ z + zeta)
FirstState(z) ==
    Leak([i \in 1..Dx |-> 0], FVecAdd(GridMax, FMatVec(GridMax, C, z), zeta))

\* The loop reading the input one row early: Z[k-1,:].
StepInput_prev(k) == Row(Z, k - 1)

\* The input row loop iteration k reads: Z[k,:].
StepInput(k) == Row(Z, k)

\* alpha * x + (1-alpha) * np.tanh(A @ x + C @ z + zeta)
CollectUpdate(x, z) ==
    Leak(x, FVecAdd(GridMax,
                    FVecAdd(GridMax, FMatVec(GridMax, A, x), FMatVec(GridMax, C, z)),
                    zeta))

\* No call is running and the last call's values have been dropped.
Ready == pc = "idle"

\* esn_collect(Z, A, C, zeta, alpha), entered directly or from esn_fit:
\* T, Dx, X = np.zeros([T, Dx]).
EnterCollect(Zin) ==
    /\ Z' = Zin
    /\ X' = Zeros(NRows(Zin), Dx)
    /\ t' = 0
    /\ iters' = 0
    /\ exc' = "none"
    /\ ret' = None
    /\ pc' = "collect_first"
    /\ W_hat' = None /\ Y_fit' = None /\ Error' = None
    /\ X0' = None /\ h' = 0 /\ W' = None /\ R' = None /\ Xh' = None /\ Yh' = None
    /\ UNCHANGED <<beside_esn, reservoir>>

esn_collect_call(Zin) ==
    /\ Ready
    /\ op' = "collect"
    /\ Y' = None /\ L' = 0
    /\ EnterCollect(Zin)

\* C @ z is defined when z has as many entries as C has columns.
InputFits(z) == NCols(C) = Len(z)

\* X[0,:] = (1-alpha) * np.tanh(C @ Z[1,:] + zeta)
esn_collect_first ==
    /\ pc = "collect_first"
    /\ InBounds(Z, FirstIndex) /\ InBounds(X, 0)
    /\ InputFits(Row(Z, FirstIndex))
    /\ X' = [X EXCEPT ![1] = FirstState(Row(Z, FirstIndex))]
    /\ t' = 1
    /\ pc' = "collect_loop"
    /\ UNCHANGED <<beside_esn, reservoir, op, exc, ret, Z, Y, L, W_hat, Y_fit, Error,
                   X0, h, W, R, Xh, Yh, iters>>

\* The same statement when Z has no row 1 (or X no row 0): IndexError,
\* which leaves esn_collect and, under esn_fit, esn_fit too.
esn_collect_first_raise ==
    /\ pc = "collect_first"
    /\ ~(InBounds(Z, FirstIndex) /\ InBounds(X, 0))
    /\ exc' = "IndexError"
    /\ pc' = "raised"
    /\ UNCHANGED <<beside_esn, reservoir, op, ret, Z, Y, L, X, t, W_hat, Y_fit, Error,
                   X0, h, W, R, Xh, Yh, iters>>

\* The same statement when Z[1,:] exists and C @ Z[1,:] is not defined: the
\* matmul raises ValueError.
esn_collect_first_mismatch ==
    /\ pc = "collect_first"
    /\ InBounds(Z, FirstIndex) /\ InBounds(X, 0)
    /\ ~InputFits(Row(Z, FirstIndex))
    /\ exc' = "ValueError"
    /\ pc' = "raised"
    /\ UNCHANGED <<beside_esn, reservoir, op, ret, Z, Y, L, X, t, W_hat, Y_fit, Error,
                   X0, h, W, R, Xh, Yh, iters>>

\* for t in range(1,T): X[t,:] = alpha * X[t-1,:] + (1-alpha) * np.tanh(...)
esn_collect_loop ==
    /\ pc = "collect_loop"
    /\ t < T
    /\ X' = [X EXCEPT ![t + 1] = CollectUpdate(Row(X, t - 1), StepInput(t))]
    /\ t' = t + 1
    /\ iters' = iters + 1
    /\ UNCHANGED <<beside_esn, reservoir, pc, op, exc, ret, Z, Y, L, W_hat, Y_fit, Error,
                   X0, h, W, R, Xh, Yh>>

\* return(X), to the caller of a direct call
esn_collect_return ==
    /\ pc = "collect_loop"
    /\ t >= T
    /\ op = "collect"
    /\ ret' = X
    /\ pc' = "done"
    /\ UNCHANGED <<beside_esn, reservoir, op, exc, Z, Y, L, X, t, W_hat, Y_fit, Error,
                   X0, h, W, R, Xh, Yh, iters>>

\* ---------------------------------------------------------------- esn_fit
esn_fit_call(Yin, Zin, Lin) ==
    /\ Ready
    /\ op' = "fit"
    /\ Y' = Yin /\ L' = Lin
    /\ EnterCollect(Zin)

\* X = esn_collect(Z, A, C, zeta, alpha): the callee's return, inside esn_fit
esn_fit_collected ==
    /\ pc = "collect_loop"
    /\ t >= T
    /\ op = "fit"
    /\ pc' = "fit_solve"
    /\ UNCHANGED <<beside_esn, reservoir, op, exc, ret, Z, Y, L, X, t, W_hat, Y_fit, Error,
                   X0, h, W, R, Xh, Yh, iters>>

\* The ridge matrix with a jitter added to the diagonal whatever the penalty.
RidgeMatrix_jitter ==
    MatAdd(MatMul(Transpose(X), X), MatScale(NRows(X) * L + 1, Eye(NCols(X))))

\* The ridge matrix with the penalty not multiplied by T.
RidgeMatrix_unscaled == MatAdd(MatMul(Transpose(X), X), MatScale(L, Eye(NCols(X))))

\* T, K = X.shape;  np.dot(X.T, X) + (T*L)*np.eye(K)
RidgeMatrix == MatAdd(MatMul(Transpose(X), X), MatScale(NRows(X) * L, Eye(NCols(X))))

\* np.dot(X.T, Y)
RidgeRhs == MatMul(Transpose(X), Y)

\* W_hat = np.linalg.solve(np.dot(X.T, X) + (T*L)*np.eye(K), np.dot(X.T, Y))
esn_fit_solve ==
    /\ pc = "fit_solve"
    /\ ~Singular(RidgeMatrix)
    /\ W_hat' = Solve(RidgeMatrix, RidgeRhs)
    /\ pc' = "fit_out"
    /\ UNCHANGED <<beside_esn, reservoir, op, exc, ret, Z, Y, L, X, t, Y_fit, Error,
                   X0, h, W, R, Xh, Yh, iters>>

\* The same statement on a singular system: np.linalg.solve raises LinAlgError.
esn_fit_solve_raise ==
    /\ pc = "fit_solve"
    /\ Singular(RidgeMatrix)
    /\ exc' = "LinAlgError"
    /\ pc' = "raised"
    /\ UNCHANGED <<beside_esn, reservoir, op, ret, Z, Y, L, X, t, W_hat, Y_fit, Error,
                   X0, h, W, R, Xh, Yh, iters>>

\* Y_fit = X @ W_hat; Error = Y - Y_fit; return (W_hat, X, Y_fit, Error)
\* Y_fit and Error share W_hat's denominator.
esn_fit_return ==
    /\ pc = "fit_out"
    /\ LET fit == MatMul(X, W_hat[1])
           err == MatAdd(MatScale(W_hat[2], Y), MatScale(-1, fit))
       IN  /\ Y_fit' = <<fit, W_hat[2]>>
           /\ Error' = <<err, W_hat[2]>>
           /\ ret' = <<W_hat, X, <<fit, W_hat[2]>>, <<err, W_hat[2]>>>>
    /\ pc' = "done"
    /\ UNCHANGED <<beside_esn, reservoir, op, exc, Z, Y, L, X, t, W_hat,
                   X0, h, W, R, Xh, Yh, iters>>

\* --------------------------------------------------------------- esn_auto
\* The fold with the feedback term subtracted: A - C @ W.T.
AutonomousMatrix_minus(Wm) ==
    FMatAdd(FloatMax, A, MatScale(-1, FMatMul(FloatMax, C, Transpose(Wm))))

\* R = A + C @ W.T
AutonomousMatrix(Wm) == FMatAdd(FloatMax, A, FMatMul(FloatMax, C, Transpose(Wm)))

\* C @ W.T is defined when C and W have as many columns.
FoldDefined(Wm) == NCols(C) = NCols(Wm)

\* alpha * x + (1-alpha) * np.tanh(Rm @ x + zeta)
AutoStep(Rm, x) == Leak(x, FVecAdd(GridMax, FMatVec(GridMax, Rm, x), zeta))

\* The same with the call's R.
AutoUpdate(x) == AutoStep(R, x)

\* A first row that is already one recurrence step past the seed.
SeedRow_stepped(x0) == AutoUpdate(x0)

\* Xh[0,:] = X0
SeedRow(x0) == x0

\* An output read from the previous state row.
OutputAt_lag(Xs, k) == FVecMat(GridMax, Row(Xs, IF k = 0 THEN 0 ELSE k - 1), W)

\* Xs[k,:] @ W
OutputAt(Xs, k) == FVecMat(GridMax, Row(Xs, k), W)

\* A loop that stops one iteration early: range(1,h-1).
AutoStop_short == h - 1

\* The end of range(1,h).
AutoStop == h

\* The entry of esn_auto had the folded matrix been stored into A itself
\* (A += C @ W.T) instead of into the new local R.
esn_auto_call_inplace(X0in, hin, Win) ==
    /\ Ready
    /\ FoldDefined(Win)
    /\ op' = "auto"
    /\ X0' = X0in /\ h' = hin /\ W' = Win
    /\ A' = AutonomousMatrix(Win)
    /\ R' = AutonomousMatrix(Win)
    /\ Xh' = Zeros(hin, Dx)
    /\ Yh' = Zeros(hin, NCols(Win))
    /\ t' = 0
    /\ iters' = 0
    /\ exc' = "none"
    /\ ret' = None
    /\ pc' = "auto_first"
    /\ Z' = None /\ Y' = None /\ L' = 0 /\ X' = None
    /\ W_hat' = None /\ Y_fit' = None /\ Error' = None
    /\ UNCHANGED <<beside_esn, C, zeta, alpha>>

\* esn_auto(X0, h, A, C, zeta, alpha, W):
\* Dx, Dy, R = A + C @ W.T, Xh = np.zeros([h, Dx]), Yh = np.zeros([h, Dy])
esn_auto_call(X0in, hin, Win) ==
    /\ Ready
    /\ FoldDefined(Win)
    /\ hin >= 0
    /\ op' = "auto"
    /\ X0' = X0in /\ h' = hin /\ W' = Win
    /\ R' = AutonomousMatrix(Win)
    /\ Xh' = Zeros(hin, Dx)
    /\ Yh' = Zeros(hin, NCols(Win))
    /\ t' = 0
    /\ iters' = 0
    /\ exc' = "none"
    /\ ret' = None
    /\ pc' = "auto_first"
    /\ Z' = None /\ Y' = None /\ L' = 0 /\ X' = None
    /\ W_hat' = None /\ Y_fit' = None /\ Error' = None
    /\ UNCHANGED <<beside_esn, reservoir>>

\* The failing call with the output arrays allocated before the fold fails.
esn_auto_call_raise_late(X0in, hin, Win) ==
    /\ Ready
    /\ ~FoldDefined(Win)
    /\ op' = "auto"
    /\ X0' = X0in /\ h' = hin /\ W' = Win
    /\ R' = None
    /\ Xh' = Zeros(hin, Dx)
    /\ Yh' = Zeros(hin, NCols(Win))
    /\ t' = 0
    /\ iters' = 0
    /\ exc' = "ValueError"
    /\ ret' = None
    /\ pc' = "raised"
    /\ Z' = None /\ Y' = None /\ L' = 0 /\ X' = None
    /\ W_hat' = None /\ Y_fit' = None /\ Error' = None
    /\ UNCHANGED <<beside_esn, reservoir>>

\* The same call when C @ W.T is not defined: the matmul raises ValueError.
esn_auto_call_raise(X0in, hin, Win) ==
    /\ Ready
    /\ ~FoldDefined(Win)
    /\ op' = "auto"
    /\ X0' = X0in /\ h' = hin /\ W' = Win
    /\ R' = None /\ Xh' = None /\ Yh' = None
    /\ t' = 0
    /\ iters' = 0
    /\ exc' = "ValueError"
    /\ ret' = None
    /\ pc' = "raised"
    /\ Z' = None /\ Y' = None /\ L' = 0 /\ X' = None
    /\ W_hat' = None /\ Y_fit' = None /\ Error' = None
    /\ UNCHANGED <<beside_esn, reservoir>>

\* The same call with a negative h: R is computed, then np.zeros([h, Dx])
\* raises ValueError (negative dimensions are not allowed).
esn_auto_alloc_raise(X0in, hin, Win) ==
    /\ Ready
    /\ FoldDefined(Win)
    /\ hin < 0
    /\ op' = "auto"
    /\ X0' = X0in /\ h' = hin /\ W' = Win
    /\ R' = AutonomousMatrix(Win)
    /\ Xh' = None /\ Yh' = None
    /\ t' = 0
    /\ iters' = 0
    /\ exc' = "ValueError"
    /\ ret' = None
    /\ pc' = "raised"
    /\ Z' = None /\ Y' = None /\ L' = 0 /\ X' = None
    /\ W_hat' = None /\ Y_fit' = None /\ Error' = None
    /\ UNCHANGED <<beside_esn, reservoir>>

\* Xh[0,:] = X0; Yh[0,:] = X0 @ W
esn_auto_first ==
    /\ pc = "auto_first"
    /\ InBounds(Xh, 0)
    /\ LET Xn == [Xh EXCEPT ![1] = SeedRow(X0)]
       IN  /\ Xh' = Xn
           /\ Yh' = [Yh EXCEPT ![1] = FVecMat(GridMax, X0, W)]
    /\ t' = 1
    /\ pc' = "auto_loop"
    /\ UNCHANGED <<beside_esn, reservoir, op, exc, ret, Z, Y, L, X, W_hat, Y_fit, Error,
                   X0, h, W, R, iters>>

\* The seed written "into" an array without rows as a slice assignment
\* would do it (Xh[0:1,:] = X0): nothing is stored, nothing is raised.
esn_auto_first_raise_silent ==
    /\ pc = "auto_first"
    /\ ~InBounds(Xh, 0)
    /\ t' = 1
    /\ pc' = "auto_loop"
    /\ UNCHANGED <<beside_esn, reservoir, op, exc, ret, Z, Y, L, X, W_hat, Y_fit, Error,
                   X0, h, W, R, Xh, Yh, iters>>

\* The same statement when Xh has no row 0 (h = 0): IndexError.
esn_auto_first_raise ==
    /\ pc = "auto_first"
    /\ ~InBounds(Xh, 0)
    /\ exc' = "IndexError"
    /\ pc' = "raised"
    /\ UNCHANGED <<beside_esn, reservoir, op, ret, Z, Y, L, X, t, W_hat, Y_fit, Error,
                   X0, h, W, R, Xh, Yh, iters>>

\* for t in range(1,h): Xh[t,:] = ...; Yh[t,:] = Xh[t,:] @ W
esn_auto_loop ==
    /\ pc = "auto_loop"
    /\ t < AutoStop
    /\ LET Xn == [Xh EXCEPT ![t + 1] = AutoUpdate(Row(Xh, t - 1))]
       IN  /\ Xh' = Xn
           /\ Yh' = [Yh EXCEPT ![t + 1] = OutputAt(Xn, t)]
    /\ t' = t + 1
    /\ iters' = iters + 1
    /\ UNCHANGED <<beside_esn, reservoir, pc, op, exc, ret, Z, Y, L, X, W_hat, Y_fit, Error,
                   X0, h, W, R>>

\* return(Xh, Yh)
esn_auto_return ==
    /\ pc = "auto_loop"
    /\ t >= AutoStop
    /\ ret' = <<Xh, Yh>>
    /\ pc' = "done"
    /\ UNCHANGED <<beside_esn, reservoir, op, exc, Z, Y, L, X, t, W_hat, Y_fit, Error,
                   X0, h, W, R, Xh, Yh, iters>>

\* ----------------------------------------------------------- mackey_glass
\* mackey_glass(beta, gamma, n, tau, a, delta_t, num_steps) of the notebook.
\* The trajectory x lives on a grid of step 1/GridX; beta, gamma, a, tau and
\* delta_t are given in tenths (0.2 is 2), n is a whole number.
GridX == 4 * Q

Tenth == 10

\* x[i] and x[i] = v for a 0-based array.
Item(v, i) == v[i + 1]

Store(v, i, val) == [v EXCEPT ![i + 1] = val]

RECURSIVE Pow(_, _)
Pow(b, e) == IF e = 0 THEN 1 ELSE b * Pow(b, e - 1)

\* The arguments the model calls mackey_glass with.
SetBeta == {2, 20}

SetGamma == {1, 10}

SetN == {1, 2}

SetTau == {0, 4, 10, 15, 25}

SetAmp == {5, 10}

SetDeltaT == {5, 10}

SetNumSteps == 0..MaxSteps

\* int(tau / delta_t): the quotient with its fraction dropped.
DelaySteps == tau \div delta_t

\* max(t - int(tau / delta_t), 0)
DelayIndex == IF mg_t - DelaySteps > 0 THEN mg_t - DelaySteps ELSE 0

\* x[t - 1] + delta_t * (beta * xd / (1.0 + xd**n) - gamma * x[t - 1]) for
\* the delayed value xd and the previous value xp, rounded once onto the grid.
MackeyGlassStep(xd, xp) ==
    LET one == Pow(GridX, mg_n)
        den == one + Pow(xd, mg_n)
        num == delta_t * (beta * xd * one - gamma * xp * den)
    IN  xp + RoundDiv(num, Tenth * Tenth * den)

mg_idle ==
    /\ mg_pc = "idle"
    /\ beta = 0 /\ gamma = 0 /\ mg_n = 0 /\ tau = 0 /\ mg_a = 0 /\ delta_t = 0
    /\ num_steps = 0
    /\ mg_x = None /\ mg_t = 0 /\ delay_index = 0 /\ trajectory = None

\* The arguments are bound; mg_x = np.zeros(num_steps); x[0] = 0.5
mackey_glass_call(b, g, nn, tt, aa, dt, steps) ==
    /\ mg_pc = "idle"
    /\ steps > 0
    /\ beta' = b /\ gamma' = g /\ mg_n' = nn /\ tau' = tt /\ mg_a' = aa
    /\ delta_t' = dt /\ num_steps' = steps
    /\ mg_x' = Store([i \in 1..steps |-> 0], 0, GridX \div 2)
    /\ mg_t' = 1
    /\ mg_pc' = "loop"
    /\ UNCHANGED <<beside_mg, delay_index, trajectory>>

\* The same with num_steps = 0: x[0] = 0.5 raises IndexError.
mackey_glass_call_raise(b, g, nn, tt, aa, dt, steps) ==
    /\ mg_pc = "idle"
    /\ steps = 0
    /\ beta' = b /\ gamma' = g /\ mg_n' = nn /\ tau' = tt /\ mg_a' = aa
    /\ delta_t' = dt /\ num_steps' = steps
    /\ mg_x' = <<>>
    /\ mg_pc' = "raised"
    /\ UNCHANGED <<beside_mg, mg_t, delay_index, trajectory>>

\* for t in range(1, num_steps): delay_index = max(t - int(tau / delta_t), 0)
mackey_glass_delay ==
    /\ mg_pc = "loop"
    /\ mg_t < num_steps
    /\ delay_index' = DelayIndex
    /\ mg_pc' = "update"
    /\ UNCHANGED <<beside_mg, beta, gamma, mg_n, tau, mg_a, delta_t, num_steps, mg_x,
                   mg_t, trajectory>>

\* x[t] = x[t - 1] + delta_t * (...); the loop moves to the next t
mackey_glass_update ==
    /\ mg_pc = "update"
    /\ mg_x' = Store(mg_x, mg_t,
                   MackeyGlassStep(Item(mg_x, delay_index), Item(mg_x, mg_t - 1)))
    /\ mg_t' = mg_t + 1
    /\ mg_pc' = "loop"
    /\ UNCHANGED <<beside_mg, beta, gamma, mg_n, tau, mg_a, delta_t, num_steps,
                   delay_index, trajectory>>

\* return a * x
mackey_glass_return ==
    /\ mg_pc = "loop"
    /\ mg_t >= num_steps
    /\ trajectory' = [i \in 1..Len(mg_x) |-> RoundDiv(mg_a * mg_x[i], Tenth)]
    /\ mg_pc' = "done"
    /\ UNCHANGED <<beside_mg, beta, gamma, mg_n, tau, mg_a, delta_t, num_steps, mg_x,
                   mg_t, delay_index>>

\* The caller is done with the trajectory or the exception.
mg_release ==
    /\ mg_pc \in {"done", "raised"}
    /\ mg_pc' = "idle"
    /\ beta' = 0 /\ gamma' = 0 /\ mg_n' = 0 /\ tau' = 0 /\ mg_a' = 0 /\ delta_t' = 0
    /\ num_steps' = 0
    /\ mg_x' = None /\ mg_t' = 0 /\ delay_index' = 0 /\ trajectory' = None
    /\ UNCHANGED beside_mg

\* --------------------------------------------------- reservoir construction
\* "generate ESN parameters" and "normalize" of esn_plot / esn_lorenz:
\*   rng = np.random.default_rng(75871685)
\*   A = rng.normal(size=[Dx, Dx]); C = rng.normal(size=[Dx, 1])
\*   zeta = rng.uniform(low=-1, high=1, size=Dx)
\*   A = (A / np.linalg.norm(A, 2)) * rho; C = (C / np.linalg.norm(C, 2)) * gamma
\* A generator is the pair <<seed, position>>; the values the bit generator
\* yields for a seed are a fixed sequence, stream[seed], which the model does
\* not compute: it is chosen when the machine starts and never changes.
\* rho and gamma are given in tenths.  A normalized array is the exact
\* fraction <<numerators, denominator>>; a denominator 0 is what numpy
\* stores after the division by a zero norm (nan entries, no exception).
Seed == 75871685

StreamLen == 10

\* The value sequences the model starts from: each makes the norms of the
\* drawn A and C whole numbers; some make A or C zero.
Streams ==
    { <<3, 0, 0, 4, 3, 4, 1, -1, 2, 5>>,
      <<0, 0, 0, 0, 0, 2, 0, 1, 1, 3>>,
      <<0, 2, 2, 0, 0, 0, 1, 1, 4, 1>>,
      <<1, 1, 1, 1, 4, 3, -2, 0, 2, 3>> }

SetDx == {1, 2}

SetRho == {5, 11}

SetGammaIn == {10, 30}

\* A generator that goes on from where the last one stopped (one generator
\* for the whole process) instead of a new one.
default_rng_shared(seed, last) == IF last = None THEN <<seed, 0>> ELSE last

\* np.random.default_rng(seed): a new generator at the start of its stream.
default_rng(seed, last) == <<seed, 0>>

\* The k-th value (from 0) a generator g yields next.
RawAt(g, k) == stream[g[1]][((g[2] + k) % StreamLen) + 1]

\* g after count values were taken.
Advance(g, count) == <<g[1], g[2] + count>>

\* rng.normal(loc=0, scale=1, size=[rows, cols]): the values in row order.
Normal(g, rows, cols) ==
    [i \in 1..rows |-> [j \in 1..cols |-> RawAt(g, (i - 1) * cols + (j - 1))]]

\* rng.uniform(low=-1, high=1, size=k) on the grid of step 1/Q.
Uniform(g, k) == [i \in 1..k |-> ((RawAt(g, i - 1) + Q) % (2 * Q + 1)) - Q]

\* The largest r with r * r <= k.
ISqrt(k) == CHOOSE r \in 0..k : r * r <= k /\ k < (r + 1) * (r + 1)

\* The sum of the squares of the entries: the square of the Frobenius norm.
SumSquares(M) ==
    SumTo([i \in 1..Len(M) |-> Dot(M[i], M[i])], Len(M))

\* The Frobenius norm, which np.linalg.norm returns when no order is given.
Norm2_frobenius(M) == ISqrt(SumSquares(M))

\* np.linalg.norm(M, 2) for M with one or two columns: the square root of
\* the largest eigenvalue of M.T @ M.
Norm2(M) ==
    LET G == MatMul(Transpose(M), M)
    IN  IF NCols(M) = 1 THEN ISqrt(G[1][1])
        ELSE LET tr == G[1][1] + G[2][2]
                 disc == tr * tr - 4 * Det(G)
             IN  ISqrt((tr + ISqrt(disc)) \div 2)

\* (M / np.linalg.norm(M, 2)) * target, with target in tenths.
Normalize(M, target) == <<MatScale(target, M), Norm2(M) * Tenth>>

\* No reservoir is constructed: no generator exists.
no_construction ==
    /\ stream = None /\ rng = None /\ first = None /\ between = "none"
    /\ ri_pc = "idle"
    /\ ri_Dx = 0 /\ rho = 0 /\ ri_gamma = 0
    /\ ri_A = None /\ ri_C = None /\ ri_zeta = None

\* The construction is entered with Dx, rho, gamma:
\* rng = np.random.default_rng(75871685)
construct_call(dx, r, g) ==
    /\ ri_pc = "idle"
    /\ ri_Dx' = dx /\ rho' = r /\ ri_gamma' = g
    /\ rng' = default_rng(Seed, rng)
    /\ ri_pc' = "draw_A"
    /\ UNCHANGED <<beside_ri, stream, ri_A, ri_C, ri_zeta, first, between>>

\* A = rng.normal(loc=0, scale=1, size=[Dx, Dx])
construct_draw_A ==
    /\ ri_pc = "draw_A"
    /\ ri_A' = Normal(rng, ri_Dx, ri_Dx)
    /\ rng' = Advance(rng, ri_Dx * ri_Dx)
    /\ ri_pc' = "draw_C"
    /\ UNCHANGED <<beside_ri, stream, ri_Dx, rho, ri_gamma, ri_C, ri_zeta,
                   first, between>>

\* C = rng.normal(loc=0, scale=1, size=[Dx, 1])
construct_draw_C ==
    /\ ri_pc = "draw_C"
    /\ ri_C' = Normal(rng, ri_Dx, 1)
    /\ rng' = Advance(rng, ri_Dx)
    /\ ri_pc' = "draw_zeta"
    /\ UNCHANGED <<beside_ri, stream, ri_Dx, rho, ri_gamma, ri_A, ri_zeta,
                   first, between>>

\* zeta = rng.uniform(low=-1, high=1, size=Dx)
construct_draw_zeta ==
    /\ ri_pc = "draw_zeta"
    /\ ri_zeta' = Uniform(rng, ri_Dx)
    /\ rng' = Advance(rng, ri_Dx)
    /\ ri_pc' = "normalize_A"
    /\ UNCHANGED <<beside_ri, stream, ri_Dx, rho, ri_gamma, ri_A, ri_C,
                   first, between>>

\* A = (A / np.linalg.norm(A, 2)) * rho
construct_normalize_A ==
    /\ ri_pc = "normalize_A"
    /\ ri_A' = Normalize(ri_A, rho)
    /\ ri_pc' = "normalize_C"
    /\ UNCHANGED <<beside_ri, stream, rng, ri_Dx, rho, ri_gamma, ri_C, ri_zeta,
                   first, between>>

\* The reservoir a construction hands on, with the arguments it was made for.
Constructed(a, c, z) == <<<<ri_Dx, rho, ri_gamma>>, <<a, c, z>>>>

\* C = (C / np.linalg.norm(C, 2)) * gamma; A, C, zeta are ready.  The first
\* construction is remembered, and so is how later ones relate to it.
construct_normalize_C ==
    /\ ri_pc = "normalize_C"
    /\ ri_C' = Normalize(ri_C, ri_gamma)
    /\ ri_pc' = "done"
    /\ first' = IF first = None THEN Constructed(ri_A, ri_C', ri_zeta) ELSE first
    /\ between' = IF first = None THEN "none"
                  ELSE IF first[1] # <<ri_Dx, rho, ri_gamma>> THEN "other"
                  ELSE IF between = "other" THEN "other_then_same"
                  ELSE between
    /\ UNCHANGED <<beside_ri, stream, rng, ri_Dx, rho, ri_gamma, ri_A, ri_zeta>>

\* The reservoir is handed to esn_fit; the locals of the construction are gone.
construct_release ==
    /\ ri_pc = "done"
    /\ ri_pc' = "idle"
    /\ ri_Dx' = 0 /\ rho' = 0 /\ ri_gamma' = 0
    /\ ri_A' = None /\ ri_C' = None /\ ri_zeta' = None
    /\ UNCHANGED <<beside_ri, stream, rng, first, between>>

\* ------------------------------------------------- calls running together
\* Two workers call esn_collect and esn_auto at the same time on one
\* reservoir (A, C, zeta, alpha), each on its own sequence.  A step of a
\* worker is one statement of the function; the steps interleave freely.
\* np.zeros gives each call a new array: heapX and heapY hold the arrays,
\* BufferOf(i) is the one worker i's call allocated.
Workers == {1, 2}

\* One array for every call (a scratch array allocated once and reused).
BufferOf_shared(i) == 1

\* X = np.zeros(...) / Xh, Yh = np.zeros(...): the call's own new array.
BufferOf(i) == i

\* The sequences the workers collect: 1, -1, 1, ... of length 1..MaxT.
WorkerSeqs == { [k \in 1..len |-> <<IF k % 2 = 1 THEN 1 ELSE -Q>>] : len \in 1..MaxT }

\* The seed state and readout the workers forecast with.
WorkerX0 == <<Q, -1>>

WorkerW == <<<<1>>, <<-1>>>>

Other(i) == CHOOSE j \in Workers : j # i

\* Worker i takes a step; it is noted when the other one is inside a call.
Step(i, newpc) ==
    /\ w_pc' = [w_pc EXCEPT ![i] = newpc]
    /\ w_overlapped' = [w_overlapped EXCEPT
           ![i] = @ \/ w_pc[Other(i)] \notin {"idle", "done", "raised"}]

\* esn_collect(Z, A, C, zeta, alpha): T, Dx, X = np.zeros([T, Dx])
w_collect_call(i, Zin) ==
    /\ w_pc[i] = "idle"
    /\ w_op' = [w_op EXCEPT ![i] = "collect"]
    /\ w_Z' = [w_Z EXCEPT ![i] = Zin]
    /\ heapX' = [heapX EXCEPT ![BufferOf(i)] = Zeros(NRows(Zin), Dx)]
    /\ w_t' = [w_t EXCEPT ![i] = 0]
    /\ w_pc' = [w_pc EXCEPT ![i] = "collect_first"]
    /\ w_overlapped' = [w_overlapped EXCEPT ![i] = FALSE]
    /\ UNCHANGED <<beside_conc, w_X0, w_h, w_W, w_R, w_ret, heapY>>

\* X[0,:] = (1-alpha) * np.tanh(C @ Z[1,:] + zeta)
w_collect_first(i) ==
    /\ w_pc[i] = "collect_first"
    /\ InBounds(w_Z[i], FirstIndex) /\ InBounds(heapX[BufferOf(i)], 0)
    /\ heapX' = [heapX EXCEPT ![BufferOf(i)][1] = FirstState(Row(w_Z[i], FirstIndex))]
    /\ w_t' = [w_t EXCEPT ![i] = 1]
    /\ Step(i, "collect_loop")
    /\ UNCHANGED <<beside_conc, w_op, w_Z, w_X0, w_h, w_W, w_R, w_ret, heapY>>

\* The same statement when Z has no row 1: IndexError.
w_collect_first_raise(i) ==
    /\ w_pc[i] = "collect_first"
    /\ ~InBounds(w_Z[i], FirstIndex)
    /\ Step(i, "raised")
    /\ UNCHANGED <<beside_conc, w_op, w_Z, w_X0, w_h, w_W, w_R, w_t, w_ret,
                   heapX, heapY>>

\* for t in range(1,T): X[t,:] = alpha * X[t-1,:] + ...; t < T = X.shape[0]
\* keeps the rows inside the array the call allocated.
w_collect_loop(i) ==
    /\ w_pc[i] = "collect_loop"
    /\ w_t[i] < NRows(w_Z[i])
    /\ InBounds(heapX[BufferOf(i)], w_t[i])
    /\ heapX' = [heapX EXCEPT ![BufferOf(i)][w_t[i] + 1] =
                    CollectUpdate(Row(heapX[BufferOf(i)], w_t[i] - 1), Row(w_Z[i], w_t[i]))]
    /\ w_t' = [w_t EXCEPT ![i] = @ + 1]
    /\ Step(i, "collect_loop")
    /\ UNCHANGED <<beside_conc, w_op, w_Z, w_X0, w_h, w_W, w_R, w_ret, heapY>>

\* return(X)
w_collect_return(i) ==
    /\ w_pc[i] = "collect_loop"
    /\ w_t[i] >= NRows(w_Z[i])
    /\ w_ret' = [w_ret EXCEPT ![i] = heapX[BufferOf(i)]]
    /\ Step(i, "done")
    /\ UNCHANGED <<beside_conc, w_op, w_Z, w_X0, w_h, w_W, w_R, w_t, heapX, heapY>>

\* esn_auto(X0, h, A, C, zeta, alpha, W): R = A + C @ W.T,
\* Xh = np.zeros([h, Dx]), Yh = np.zeros([h, Dy])
w_auto_call(i, X0in, hin, Win) ==
    /\ w_pc[i] = "idle"
    /\ w_op' = [w_op EXCEPT ![i] = "auto"]
    /\ w_X0' = [w_X0 EXCEPT ![i] = X0in]
    /\ w_h' = [w_h EXCEPT ![i] = hin]
    /\ w_W' = [w_W EXCEPT ![i] = Win]
    /\ w_R' = [w_R EXCEPT ![i] = AutonomousMatrix(Win)]
    /\ heapX' = [heapX EXCEPT ![BufferOf(i)] = Zeros(hin, Dx)]
    /\ heapY' = [heapY EXCEPT ![BufferOf(i)] = Zeros(hin, NCols(Win))]
    /\ w_t' = [w_t EXCEPT ![i] = 0]
    /\ w_pc' = [w_pc EXCEPT ![i] = "auto_first"]
    /\ w_overlapped' = [w_overlapped EXCEPT ![i] = FALSE]
    /\ UNCHANGED <<beside_conc, w_Z, w_ret>>

\* Xh[0,:] = X0; Yh[0,:] = X0 @ W
w_auto_first(i) ==
    /\ w_pc[i] = "auto_first"
    /\ InBounds(heapX[BufferOf(i)], 0)
    /\ heapX' = [heapX EXCEPT ![BufferOf(i)][1] = SeedRow(w_X0[i])]
    /\ heapY' = [heapY EXCEPT ![BufferOf(i)][1] = FVecMat(GridMax, w_X0[i], w_W[i])]
    /\ w_t' = [w_t EXCEPT ![i] = 1]
    /\ Step(i, "auto_loop")
    /\ UNCHANGED <<beside_conc, w_op, w_Z, w_X0, w_h, w_W, w_R, w_ret>>

\* The same statement when Xh has no row 0 (h = 0): IndexError.
w_auto_first_raise(i) ==
    /\ w_pc[i] = "auto_first"
    /\ ~InBounds(heapX[BufferOf(i)], 0)
    /\ Step(i, "raised")
    /\ UNCHANGED <<beside_conc, w_op, w_Z, w_X0, w_h, w_W, w_R, w_t, w_ret,
                   heapX, heapY>>

\* for t in range(1,h): Xh[t,:] = ...; Yh[t,:] = Xh[t,:] @ W; t < h keeps the
\* rows inside the arrays the call allocated.
w_auto_loop(i) ==
    /\ w_pc[i] = "auto_loop"
    /\ w_t[i] < w_h[i]
    /\ InBounds(heapX[BufferOf(i)], w_t[i]) /\ InBounds(heapY[BufferOf(i)], w_t[i])
    /\ LET row == AutoStep(w_R[i], Row(heapX[BufferOf(i)], w_t[i] - 1))
       IN  /\ heapX' = [heapX EXCEPT ![BufferOf(i)][w_t[i] + 1] = row]
           /\ heapY' = [heapY EXCEPT ![BufferOf(i)][w_t[i] + 1] =
                           FVecMat(GridMax, row, w_W[i])]
    /\ w_t' = [w_t EXCEPT ![i] = @ + 1]
    /\ Step(i, "auto_loop")
    /\ UNCHANGED <<beside_conc, w_op, w_Z, w_X0, w_h, w_W, w_R, w_ret>>

\* return(Xh, Yh)
w_auto_return(i) ==
    /\ w_pc[i] = "auto_loop"
    /\ w_t[i] >= w_h[i]
    /\ w_ret' = [w_ret EXCEPT ![i] = <<heapX[BufferOf(i)], heapY[BufferOf(i)]>>]
    /\ Step(i, "done")
    /\ UNCHANGED <<beside_conc, w_op, w_Z, w_X0, w_h, w_W, w_R, w_t, heapX, heapY>>

\* Worker i's caller is done with the result or the exception; the call's
\* arrays are freed.
w_release(i) ==
    /\ w_pc[i] \in {"done", "raised"}
    /\ w_pc' = [w_pc EXCEPT ![i] = "idle"]
    /\ w_op' = [w_op EXCEPT ![i] = "none"]
    /\ w_Z' = [w_Z EXCEPT ![i] = None]
    /\ w_X0' = [w_X0 EXCEPT ![i] = None]
    /\ w_h' = [w_h EXCEPT ![i] = 0]
    /\ w_W' = [w_W EXCEPT ![i] = None]
    /\ w_R' = [w_R EXCEPT ![i] = None]
    /\ w_t' = [w_t EXCEPT ![i] = 0]
    /\ w_ret' = [w_ret EXCEPT ![i] = None]
    /\ w_overlapped' = [w_overlapped EXCEPT ![i] = FALSE]
    /\ heapX' = [heapX EXCEPT ![BufferOf(i)] = None]
    /\ heapY' = [heapY EXCEPT ![BufferOf(i)] = None]
    /\ UNCHANGED beside_conc

\* No worker is inside a call.
no_workers ==
    /\ w_pc = [i \in Workers |-> "idle"]
    /\ w_op = [i \in Workers |-> "none"]
    /\ w_Z = [i \in Workers |-> None]
    /\ w_X0 = [i \in Workers |-> None]
    /\ w_h = [i \in Workers |-> 0]
    /\ w_W = [i \in Workers |-> None]
    /\ w_R = [i \in Workers |-> None]
    /\ w_t = [i \in Workers |-> 0]
    /\ w_ret = [i \in Workers |-> None]
    /\ heapX = [i \in Workers |-> None]
    /\ heapY = [i \in Workers |-> None]
    /\ w_overlapped = [i \in Workers |-> FALSE]

\* ------------------------------------------------------------ the machine
\* No call is running: every argument, local and result is unset.
NoCall ==
    /\ pc = "idle" /\ op = "none" /\ exc = "none" /\ ret = None
    /\ Z = None /\ Y = None /\ L = 0 /\ X = None /\ t = 0
    /\ W_hat = None /\ Y_fit = None /\ Error = None
    /\ X0 = None /\ h = 0 /\ W = None /\ R = None /\ Xh = None /\ Yh = None
    /\ iters = 0

\* A reservoir is drawn; no call has been made.
Init ==
    /\ A \in SetA /\ C \in SetC /\ zeta \in SetZeta /\ alpha \in SetAlpha
    /\ NoCall
    /\ mg_idle
    /\ no_construction
    /\ no_workers
    /\ pm_idle
    /\ ar_idle
    /\ nar_idle
    /\ lz_idle
    /\ no_pipeline

\* The caller is done with a call's result or exception; the reservoir stays
\* and the next call can be made.
release ==
    /\ pc \in {"done", "raised"}
    /\ pc' = "idle" /\ op' = "none" /\ exc' = "none" /\ ret' = None
    /\ Z' = None /\ Y' = None /\ L' = 0 /\ X' = None /\ t' = 0
    /\ W_hat' = None /\ Y_fit' = None /\ Error' = None
    /\ X0' = None /\ h' = 0 /\ W' = None /\ R' = None /\ Xh' = None /\ Yh' = None
    /\ iters' = 0
    /\ UNCHANGED <<beside_esn, reservoir>>

Next ==
    \/ \E Zin \in InputSeqs \cup InputSeqs2 : esn_collect_call(Zin)
    \/ esn_collect_first
    \/ esn_collect_first_raise
    \/ esn_collect_first_mismatch
    \/ esn_collect_loop
    \/ esn_collect_return
    \/ \E Zin \in InputSeqs : \E Yin \in TargetsFor(Zin) : \E Lin \in SetL :
           esn_fit_call(Yin, Zin, Lin)
    \/ esn_fit_collected
    \/ esn_fit_solve
    \/ esn_fit_solve_raise
    \/ esn_fit_return
    \/ \E X0in \in SetX0 : \E hin \in SetH : \E Win \in SetW \cup SetW2 :
           esn_auto_call(X0in, hin, Win)
    \/ \E X0in \in SetX0 : \E hin \in SetH : \E Win \in SetW \cup SetW2 :
           esn_auto_call_raise(X0in, hin, Win)
    \/ \E X0in \in SetX0 : \E hin \in SetHNegative : \E Win \in SetW :
           esn_auto_alloc_raise(X0in, hin, Win)
    \/ esn_auto_first
    \/ esn_auto_first_raise
    \/ esn_auto_loop
    \/ esn_auto_return
    \/ release

Spec == Init /\ [][Next]_vars

\* Input matrices with entries above 1.
SetCLarge == { <<<<2>>, <<2>>>> }

\* A reservoir is drawn, its input matrix of any size; no call has been made.
InitOverflow ==
    /\ A \in SetA /\ C \in SetC \cup SetCLarge /\ zeta \in SetZeta
    /\ alpha \in SetAlpha
    /\ NoCall
    /\ mg_idle
    /\ no_construction
    /\ no_workers
    /\ pm_idle
    /\ ar_idle
    /\ nar_idle
    /\ lz_idle
    /\ no_pipeline

\* Forecasts alone, with readout weights of every size.
NextOverflow ==
    \/ \E X0in \in SetX0, hin \in SetH, Win \in SetW \cup SetWHuge :
           esn_auto_call(X0in, hin, Win)
    \/ esn_auto_first
    \/ esn_auto_first_raise
    \/ esn_auto_loop
    \/ esn_auto_return
    \/ release

SpecOverflow == InitOverflow /\ [][NextOverflow]_vars

\* mackey_glass alone: no reservoir is in use.
InitMG ==
    /\ A = None /\ C = None /\ zeta = None /\ alpha = 0
    /\ NoCall
    /\ mg_idle
    /\ no_construction
    /\ no_workers
    /\ pm_idle
    /\ ar_idle
    /\ nar_idle
    /\ lz_idle
    /\ no_pipeline

NextMG ==
    \/ \E b \in SetBeta, g \in SetGamma, nn \in SetN, tt \in SetTau,
          aa \in SetAmp, dt \in SetDeltaT, steps \in SetNumSteps :
            \/ mackey_glass_call(b, g, nn, tt, aa, dt, steps)
            \/ mackey_glass_call_raise(b, g, nn, tt, aa, dt, steps)
    \/ mackey_glass_delay
    \/ mackey_glass_update
    \/ mackey_glass_return
    \/ mg_release

SpecMG == InitMG /\ [][NextMG]_vars

\* Reservoir constructions alone, one after another.
InitRI ==
    /\ A = None /\ C = None /\ zeta = None /\ alpha = 0
    /\ NoCall
    /\ mg_idle
    /\ stream \in [{Seed} -> Streams]
    /\ rng = None /\ first = None /\ between = "none"
    /\ ri_pc = "idle"
    /\ ri_Dx = 0 /\ rho = 0 /\ ri_gamma = 0
    /\ ri_A = None /\ ri_C = None /\ ri_zeta = None
    /\ no_workers
    /\ pm_idle
    /\ ar_idle
    /\ nar_idle
    /\ lz_idle
    /\ no_pipeline

NextRI ==
    \/ \E dx \in SetDx, r \in SetRho, g \in SetGammaIn : construct_call(dx, r, g)
    \/ construct_draw_A
    \/ construct_draw_C
    \/ construct_draw_zeta
    \/ construct_normalize_A
    \/ construct_normalize_C
    \/ construct_release

SpecRI == InitRI /\ [][NextRI]_vars

\* Two workers on one reservoir.
InitConc ==
    /\ A \in SetA /\ C = <<<<1>>, <<-1>>>> /\ zeta = <<1, -1>> /\ alpha \in {0, 1}
    /\ NoCall
    /\ mg_idle
    /\ no_construction
    /\ no_workers
    /\ pm_idle
    /\ ar_idle
    /\ nar_idle
    /\ lz_idle
    /\ no_pipeline

NextConc ==
    \E i \in Workers :
        \/ \E Zin \in WorkerSeqs : w_collect_call(i, Zin)
        \/ w_collect_first(i)
        \/ w_collect_first_raise(i)
        \/ w_collect_loop(i)
        \/ w_collect_return(i)
        \/ \E hin \in SetH : w_auto_call(i, WorkerX0, hin, WorkerW)
        \/ w_auto_first(i)
        \/ w_auto_first_raise(i)
        \/ w_auto_loop(i)
        \/ w_auto_return(i)
        \/ w_release(i)

SpecConc == InitConc /\ [][NextConc]_vars

\* ------------------------------------------- the train-then-forecast pipeline
\* esn_plot(T, h, ...) of the autonomous section: split, esn_fit, esn_auto,
\* plot.  The reservoir is the machine's.

\* Y[a:b,:] for 0 <= a, b <= len(Y): rows a .. b-1, none when b <= a.
Slice(M, a, b) == [k \in 1..(IF b > a THEN b - a ELSE 0) |-> M[a + k]]

\* Y_train_in = Y[:T-1,:]
Y_train_in == Slice(series, 0, p_T - 1)

\* Y_train_out = Y[1:T,:]
Y_train_out == Slice(series, 1, p_T)

\* Y_test = Y[T:,:]
Y_test == Slice(series, p_T, Len(series))

\* The series the model runs the pipeline on: two shapes of each length.
SeriesOf(len) ==
    { [i \in 1..len |-> <<IF i % 2 = 1 THEN 1 ELSE -Q>>],
      [i \in 1..len |-> <<(i % 3) - 1>>] }

\* W_hat as esn_auto takes it: the solved weights num / den, each rounded to
\* the whole number the weights are carried in.
Whole(Wr) ==
    [i \in 1..Len(Wr[1]) |->
        [j \in 1..Len(Wr[1][i]) |->
            IF Wr[2] > 0 THEN RoundDiv(Wr[1][i][j], Wr[2])
            ELSE RoundDiv(-Wr[1][i][j], -Wr[2])]]

\* X[-1,:]
LastRow(M) == M[Len(M)]

\* time[T:] paired with Y_test and with Yh, point by point.
PlotTest(Yt, Yf) == [k \in 1..Len(Yf) |-> <<p_T + k - 1, Yt[k], Yf[k]>>]

\* W_hat, X, Y_fit, _ = esn_fit(Y_train_out, Y_train_in, Lambda, A, C, zeta, alpha)
pipe_fit(Lin) ==
    /\ p_fit = <<>>
    /\ esn_fit_call(Y_train_out, Y_train_in, Lin)

\* Xh, Yh = esn_auto(X[-1,:], h, A, C, zeta, alpha, W_hat), entered with
\* the fit's results kept by the pipeline.
pipe_auto ==
    /\ op = "fit" /\ pc = "done"
    /\ p_fit' = ret
    /\ LET X0in == LastRow(ret[2])
           Win == Whole(ret[1])
       IN  /\ FoldDefined(Win)
           /\ X0' = X0in /\ h' = p_h /\ W' = Win
           /\ R' = AutonomousMatrix(Win)
           /\ Xh' = Zeros(p_h, Dx)
           /\ Yh' = Zeros(p_h, NCols(Win))
    /\ op' = "auto"
    /\ t' = 0
    /\ iters' = 0
    /\ exc' = "none"
    /\ ret' = None
    /\ pc' = "auto_first"
    /\ Z' = None /\ Y' = None /\ L' = 0 /\ X' = None
    /\ W_hat' = None /\ Y_fit' = None /\ Error' = None
    /\ UNCHANGED <<beside_pipe, reservoir, series, p_T, p_h, drawn>>

\* ax.plot(time[T:], Y_test); ax.plot(time[T:], Yh)
pipe_plot ==
    /\ op = "auto" /\ pc = "done"
    /\ drawn = <<>>
    /\ drawn' = PlotTest(Y_test, ret[2])
    /\ UNCHANGED <<beside_pipe, esn_vars, series, p_T, p_h, p_fit>>

\* interact(esn_plot, T=(1, 500), h=(1, 100), ...): a reservoir, T and h are
\* chosen and the series generated; nothing has run.
InitPipe ==
    /\ A \in SetA /\ C \in SetC /\ zeta \in SetZeta /\ alpha \in SetAlpha
    /\ NoCall
    /\ mg_idle
    /\ no_construction
    /\ no_workers
    /\ pm_idle
    /\ ar_idle
    /\ nar_idle
    /\ lz_idle
    /\ p_T \in 2..(MaxT + 1)
    /\ p_h \in 1..MaxH
    /\ series \in SeriesOf(p_T + p_h)
    /\ p_fit = <<>>
    /\ drawn = <<>>

NextPipe ==
    \/ \E Lin \in SetL : pipe_fit(Lin)
    \/ esn_collect_first
    \/ esn_collect_first_raise
    \/ esn_collect_loop
    \/ esn_fit_collected
    \/ esn_fit_solve
    \/ esn_fit_solve_raise
    \/ esn_fit_return
    \/ pipe_auto
    \/ esn_auto_first
    \/ esn_auto_loop
    \/ esn_auto_return
    \/ pipe_plot

SpecPipe == InitPipe /\ [][NextPipe]_vars

\* -------------------------------------------------------- lorenz_attractor
\* lorenz_attractor(sigma, rho, beta, initial_state, delta_t, num_steps).
\* The coordinates live on the grid (v stands for v / Q); sigma, rho and beta
\* are whole numbers and delta_t is given in tenths.

\* The arguments the model calls lorenz_attractor with.
SetSigma == {1, 2}
SetRhoLorenz == {1, 3}
SetBetaLorenz == {1, 2}
SetInitialState == { <<Q, 0, 0>>, <<Q, Q, Q>>, <<-Q, 1, 2 * Q>> }
SetDeltaTLorenz == {1, 5}

\* dx = sigma * (y - x)
LorenzDx(xv, yv, zv) == lz_sigma * (yv - xv)

\* dy = x * (rho - z) - y, the product rounded once onto the grid
LorenzDy(xv, yv, zv) == RoundDiv(xv * (lz_rho * Q - zv), Q) - yv

\* dz = x * y - beta * z, the product rounded once onto the grid
LorenzDz(xv, yv, zv) == RoundDiv(xv * yv, Q) - lz_beta * zv

\* v += delta_t * dv
Euler(v, dv) == v + RoundDiv(lz_delta_t * dv, Tenth)

\* x, y, z = initial_state; x_vals, y_vals, z_vals = [x], [y], [z]
lorenz_call(sg, rh, be, s0, dt, ns) ==
    /\ lz_pc = "idle"
    /\ lz_sigma' = sg /\ lz_rho' = rh /\ lz_beta' = be
    /\ initial_state' = s0 /\ lz_delta_t' = dt /\ lz_num_steps' = ns
    /\ lz_x' = s0[1] /\ lz_y' = s0[2] /\ lz_z' = s0[3]
    /\ x_vals' = <<s0[1]>> /\ y_vals' = <<s0[2]>> /\ z_vals' = <<s0[3]>>
    /\ lz_ret' = None
    /\ lz_pc' = "loop"
    /\ UNCHANGED beside_lz

\* An iteration that updates each coordinate as soon as its increment is
\* known, so that dy sees the new x and dz the new x and y.
lorenz_step_sequential ==
    /\ lz_pc = "loop"
    /\ Len(x_vals) - 1 < lz_num_steps
    /\ LET xn == Euler(lz_x, LorenzDx(lz_x, lz_y, lz_z))
           yn == Euler(lz_y, LorenzDy(xn, lz_y, lz_z))
           zn == Euler(lz_z, LorenzDz(xn, yn, lz_z))
       IN  /\ lz_x' = xn /\ lz_y' = yn /\ lz_z' = zn
           /\ x_vals' = Append(x_vals, xn)
           /\ y_vals' = Append(y_vals, yn)
           /\ z_vals' = Append(z_vals, zn)
    /\ UNCHANGED <<beside_lz, lz_pc, lz_sigma, lz_rho, lz_beta, initial_state,
                   lz_delta_t, lz_num_steps, lz_ret>>

\* One iteration of for _ in range(num_steps): dx, dy, dz from the current
\* x, y, z; then x, y, z updated; then appended.
lorenz_step ==
    /\ lz_pc = "loop"
    /\ Len(x_vals) - 1 < lz_num_steps
    /\ LET dx == LorenzDx(lz_x, lz_y, lz_z)
           dy == LorenzDy(lz_x, lz_y, lz_z)
           dz == LorenzDz(lz_x, lz_y, lz_z)
           xn == Euler(lz_x, dx)
           yn == Euler(lz_y, dy)
           zn == Euler(lz_z, dz)
       IN  /\ lz_x' = xn /\ lz_y' = yn /\ lz_z' = zn
           /\ x_vals' = Append(x_vals, xn)
           /\ y_vals' = Append(y_vals, yn)
           /\ z_vals' = Append(z_vals, zn)
    /\ UNCHANGED <<beside_lz, lz_pc, lz_sigma, lz_rho, lz_beta, initial_state,
                   lz_delta_t, lz_num_steps, lz_ret>>

\* return np.array(x_vals), np.array(y_vals), np.array(z_vals)
lorenz_return ==
    /\ lz_pc = "loop"
    /\ Len(x_vals) - 1 >= lz_num_steps
    /\ lz_ret' = <<x_vals, y_vals, z_vals>>
    /\ lz_pc' = "done"
    /\ UNCHANGED <<beside_lz, lz_sigma, lz_rho, lz_beta, initial_state, lz_delta_t,
                   lz_num_steps, lz_x, lz_y, lz_z, x_vals, y_vals, z_vals>>

\* The caller is done with the arrays.
lorenz_release ==
    /\ lz_pc = "done"
    /\ lz_pc' = "idle"
    /\ lz_sigma' = 0 /\ lz_rho' = 0 /\ lz_beta' = 0 /\ initial_state' = <<>>
    /\ lz_delta_t' = 0 /\ lz_num_steps' = 0
    /\ lz_x' = 0 /\ lz_y' = 0 /\ lz_z' = 0
    /\ x_vals' = <<>> /\ y_vals' = <<>> /\ z_vals' = <<>>
    /\ lz_ret' = <<>>
    /\ UNCHANGED beside_lz

InitLorenz ==
    /\ A \in SetA /\ C \in SetC /\ zeta \in SetZeta /\ alpha \in SetAlpha
    /\ NoCall
    /\ mg_idle
    /\ no_construction
    /\ no_workers
    /\ pm_idle
    /\ ar_idle
    /\ nar_idle
    /\ no_pipeline
    /\ lz_idle

NextLorenz ==
    \/ \E sg \in SetSigma : \E rh \in SetRhoLorenz : \E be \in SetBetaLorenz :
       \E s0 \in SetInitialState : \E dt \in SetDeltaTLorenz :
       \E ns \in SetNumSteps : lorenz_call(sg, rh, be, s0, dt, ns)
    \/ lorenz_step
    \/ lorenz_return
    \/ lorenz_release

SpecLorenz == InitLorenz /\ [][NextLorenz]_vars

\* --------------------------------------------------------------- nonlin_ar
\* nonlin_ar(n, init=100, seed=12345).  E and X live on the grid of step
\* 1/GridX; what rng.uniform yields is a choice among SetNoise.

\* The arguments the model calls nonlin_ar with.
SetNarN == 0..MaxH
SetNarInit == {0, 1, 2}

\* Values of rng.uniform(low=-1, high=1), which lie in [-1, 1).
SetNoise == {-GridX, 3, GridX - 1}

\* 2 * x / (1 + 0.8*x**2), rounded once onto the grid.
NarMap(v) == RoundDiv(10 * v * GridX * GridX, 5 * GridX * GridX + 4 * v * v)

\* The noise of the step before: E[t-1].
NarNoise_prev(Ev, k) == Item(Ev, k - 1)

\* The noise added at step t: E[t].
NarNoise(Ev, k) == Item(Ev, k)

\* M[init:]
From(v, k) == [j \in 1..(IF Len(v) > k THEN Len(v) - k ELSE 0) |-> v[k + j]]

\* rng = np.random.default_rng(seed); E = np.zeros(n+init); X = np.zeros(n+init)
nonlin_ar_call(nin, initin) ==
    /\ nar_pc = "idle"
    /\ nar_n' = nin /\ nar_init' = initin
    /\ nar_E' = [j \in 1..(nin + initin) |-> 0]
    /\ nar_X' = [j \in 1..(nin + initin) |-> 0]
    /\ nar_t' = 0
    /\ nar_exc' = "none"
    /\ nar_ret' = None
    /\ nar_pc' = "first"
    /\ UNCHANGED beside_nar

\* E[0] = rng.uniform(low=-1, high=1)
nonlin_ar_first(u) ==
    /\ nar_pc = "first"
    /\ Len(nar_E) > 0
    /\ nar_E' = Store(nar_E, 0, u)
    /\ nar_t' = 1
    /\ nar_pc' = "loop"
    /\ UNCHANGED <<beside_nar, nar_n, nar_init, nar_X, nar_exc, nar_ret>>

\* The same statement on an array without entries (n + init = 0): IndexError.
nonlin_ar_first_raise ==
    /\ nar_pc = "first"
    /\ Len(nar_E) = 0
    /\ nar_exc' = "IndexError"
    /\ nar_pc' = "raised"
    /\ UNCHANGED <<beside_nar, nar_n, nar_init, nar_E, nar_X, nar_t, nar_ret>>

\* for t in range(1, n+init): E[t] = rng.uniform(...); X[t] = ... + E[t]
nonlin_ar_loop(u) ==
    /\ nar_pc = "loop"
    /\ nar_t < nar_n + nar_init
    /\ LET En == Store(nar_E, nar_t, u)
       IN  /\ nar_E' = En
           /\ nar_X' = Store(nar_X, nar_t,
                             NarMap(Item(nar_X, nar_t - 1)) + NarNoise(En, nar_t))
    /\ nar_t' = nar_t + 1
    /\ UNCHANGED <<beside_nar, nar_pc, nar_n, nar_init, nar_exc, nar_ret>>

\* return(X[init:], E[init:])
nonlin_ar_return ==
    /\ nar_pc = "loop"
    /\ nar_t >= nar_n + nar_init
    /\ nar_ret' = <<From(nar_X, nar_init), From(nar_E, nar_init)>>
    /\ nar_pc' = "done"
    /\ UNCHANGED <<beside_nar, nar_n, nar_init, nar_E, nar_X, nar_t, nar_exc>>

\* The caller is done with the result or the exception.
nonlin_ar_release ==
    /\ nar_pc \in {"done", "raised"}
    /\ nar_pc' = "idle"
    /\ nar_n' = 0 /\ nar_init' = 0
    /\ nar_E' = <<>> /\ nar_X' = <<>>
    /\ nar_t' = 0
    /\ nar_exc' = "none"
    /\ nar_ret' = <<>>
    /\ UNCHANGED beside_nar

InitNar ==
    /\ A = <<<<0, 0>>, <<0, 0>>>> /\ C = <<<<1>>, <<1>>>> /\ zeta = <<0, 0>> /\ alpha = 0
    /\ NoCall
    /\ mg_idle
    /\ no_construction
    /\ no_workers
    /\ pm_idle
    /\ ar_idle
    /\ no_pipeline
    /\ lz_idle
    /\ nar_idle

NextNar ==
    \/ \E nin \in SetNarN : \E initin \in SetNarInit : nonlin_ar_call(nin, initin)
    \/ \E u \in SetNoise : nonlin_ar_first(u)
    \/ nonlin_ar_first_raise
    \/ \E u \in SetNoise : nonlin_ar_loop(u)
    \/ nonlin_ar_return
    \/ nonlin_ar_release

SpecNar == InitNar /\ [][NextNar]_vars

\* -------------------------------------------------------------- ar_process
\* ar_process(phi, sigma, n) of the feedforward notebook.  The coefficients
\* and the values are whole numbers; what np.random.randn(...) * sigma yields
\* is a choice among SetShock per entry.

\* The coefficient vectors the model calls ar_process with: p = 1, 2, 3.
SetPhi == { <<2>>, <<1, -1>>, <<1, 2>>, <<1, 0, -1>> }

\* The lengths n.
SetArN == 0..MaxH

\* Values of np.random.randn(...) * sigma.
SetShock == {-1, 2}

\* y[a:b] for 0 <= a <= b <= len(y)
Window(v, a, b) == [k \in 1..(b - a) |-> v[a + k]]

\* phi @ y[i - len(phi):i]
LagSum(ph, v, i) == Dot(ph, Window(v, i - Len(ph), i))

\* y[len(phi):].reshape(-1, 1)
Column(v, a) == [k \in 1..(Len(v) - a) |-> <<v[a + k]>>]

\* y = np.random.randn(n + len(phi)) * sigma
ar_process_call(ph, nin, shocks) ==
    /\ ar_pc = "idle"
    /\ ar_phi' = ph /\ ar_n' = nin
    /\ ar_noise' = shocks
    /\ ar_y' = shocks
    /\ ar_i' = Len(ph)
    /\ ar_ret' = None
    /\ ar_pc' = "loop"
    /\ UNCHANGED beside_ar

\* for i in range(len(phi), n + len(phi)): y[i] = phi @ y[i - len(phi):i] + y[i]
ar_process_loop ==
    /\ ar_pc = "loop"
    /\ ar_i < ar_n + Len(ar_phi)
    /\ ar_y' = Store(ar_y, ar_i, LagSum(ar_phi, ar_y, ar_i) + Item(ar_y, ar_i))
    /\ ar_i' = ar_i + 1
    /\ UNCHANGED <<beside_ar, ar_pc, ar_phi, ar_n, ar_noise, ar_ret>>

\* return y[len(phi):].reshape(-1, 1)
ar_process_return ==
    /\ ar_pc = "loop"
    /\ ar_i >= ar_n + Len(ar_phi)
    /\ ar_ret' = Column(ar_y, Len(ar_phi))
    /\ ar_pc' = "done"
    /\ UNCHANGED <<beside_ar, ar_phi, ar_n, ar_noise, ar_y, ar_i>>

\* The caller is done with the array.
ar_process_release ==
    /\ ar_pc = "done"
    /\ ar_pc' = "idle"
    /\ ar_phi' = <<>> /\ ar_n' = 0
    /\ ar_noise' = <<>> /\ ar_y' = <<>>
    /\ ar_i' = 0
    /\ ar_ret' = <<>>
    /\ UNCHANGED beside_ar

InitAr ==
    /\ A = <<<<0, 0>>, <<0, 0>>>> /\ C = <<<<1>>, <<1>>>> /\ zeta = <<0, 0>> /\ alpha = 0
    /\ NoCall
    /\ mg_idle
    /\ no_construction
    /\ no_workers
    /\ pm_idle
    /\ no_pipeline
    /\ lz_idle
    /\ nar_idle
    /\ ar_idle

NextAr ==
    \/ \E ph \in SetPhi : \E nin \in SetArN :
       \E shocks \in [1..(nin + Len(ph)) -> SetShock] : ar_process_call(ph, nin, shocks)
    \/ ar_process_loop
    \/ ar_process_return
    \/ ar_process_release

SpecAr == InitAr /\ [][NextAr]_vars

\* --------------------------------------------- PMDataset, make_lstm_preds
\* class PMDataset and make_lstm_preds of the predictive challenge notebook.
\* A tensor is a sequence of rows; the rows of y are 1-tuples.

\* k rows of zeros of the width of M's rows: torch.zeros(k, *M.shape[1:])
ZeroRows(k, M) == [i \in 1..k |-> [c \in 1..Len(M[1]) |-> 0]]

\* A constructor that pads whenever enforce_shape is set, by a whole window
\* when the length is already a multiple of seq_len.
PMDataset_padalways(Xin, yin, sl, enforce) ==
    IF enforce
    THEN [X |-> Xin \o ZeroRows(sl - (Len(Xin) % sl), Xin),
          y |-> yin \o ZeroRows(sl - (Len(yin) % sl), yin),
          added |-> sl - (Len(Xin) % sl),
          seq_len |-> sl]
    ELSE [X |-> Xin, y |-> yin, added |-> 0, seq_len |-> sl]

\* PMDataset.__init__(self, X, y, seq_len, enforce_shape)
PMDataset(Xin, yin, sl, enforce) ==
    IF enforce /\ Len(Xin) % sl # 0
    THEN [X |-> Xin \o ZeroRows(sl - (Len(Xin) % sl), Xin),
          y |-> yin \o ZeroRows(sl - (Len(yin) % sl), yin),
          added |-> sl - (Len(Xin) % sl),
          seq_len |-> sl]
    ELSE [X |-> Xin, y |-> yin, added |-> 0, seq_len |-> sl]

\* PMDataset.__len__: (self.y.shape[0] - self.seq_len) // self.seq_len + 1
PMDataset_len(self) == (Len(self.y) - self.seq_len) \div self.seq_len + 1

\* M[a:b], the slice cut at the end of M
Clip(M, a, b) ==
    LET e == IF b < Len(M) THEN b ELSE Len(M)
    IN  [k \in 1..(IF e > a THEN e - a ELSE 0) |-> M[a + k]]

\* PMDataset.__getitem__: idx *= self.seq_len; X[idx:idx+seq_len], y[idx:idx+seq_len]
PMDataset_getitem(self, idx) ==
    LET i == idx * self.seq_len
    IN  <<Clip(self.X, i, i + self.seq_len), Clip(self.y, i, i + self.seq_len)>>

\* The feature arrays and targets the model builds datasets from: N rows,
\* 1 <= N <= MaxRows, one or two features, no row of zeros.
FeatureSets ==
    UNION { { [i \in 1..n |-> <<i>>], [i \in 1..n |-> <<2 * i, -i>>] } : n \in 1..MaxRows }
TargetsOf(Xin) == [i \in 1..Len(Xin) |-> <<10 + i>>]
SetSeqLen == 1..MaxSeqLen

\* ds = PMDataset(X, y, seq_len, enforce_shape)
dataset_new(Xin, yin, sl, enforce) ==
    /\ pm_pc = "idle"
    /\ ds = None
    /\ ds' = PMDataset(Xin, yin, sl, enforce)
    /\ ds_args' = <<Xin, yin, sl, enforce>>
    /\ UNCHANGED <<beside_pm, ds_len, ds_idx, ds_item, pm_pc, pm_seq_len, df_test,
                   pm_city, pm_weight, dsy, pm_it, y_pred, preds, pm_ret>>

\* len(ds)
dataset_len ==
    /\ ds # None
    /\ ds_len' = PMDataset_len(ds)
    /\ UNCHANGED <<beside_pm, ds, ds_args, ds_idx, ds_item, pm_pc, pm_seq_len, df_test,
                   pm_city, pm_weight, dsy, pm_it, y_pred, preds, pm_ret>>

\* ds[idx], for an index a DataLoader's sampler yields: range(len(ds))
dataset_getitem(idx) ==
    /\ ds # None
    /\ idx < PMDataset_len(ds)
    /\ ds_idx' = idx
    /\ ds_item' = PMDataset_getitem(ds, idx)
    /\ UNCHANGED <<beside_pm, ds, ds_args, ds_len, pm_pc, pm_seq_len, df_test,
                   pm_city, pm_weight, dsy, pm_it, y_pred, preds, pm_ret>>

\* The object is dropped.
dataset_drop ==
    /\ ds # None
    /\ ds' = None /\ ds_args' = <<>> /\ ds_len' = -1 /\ ds_idx' = -1 /\ ds_item' = None
    /\ UNCHANGED <<beside_pm, pm_pc, pm_seq_len, df_test,
                   pm_city, pm_weight, dsy, pm_it, y_pred, preds, pm_ret>>

InitDataset ==
    /\ A = <<<<0, 0>>, <<0, 0>>>> /\ C = <<<<1>>, <<1>>>> /\ zeta = <<0, 0>> /\ alpha = 0
    /\ NoCall
    /\ mg_idle
    /\ no_construction
    /\ no_workers
    /\ no_pipeline
    /\ lz_idle
    /\ nar_idle
    /\ ar_idle
    /\ pm_idle

NextDataset ==
    \/ \E Xin \in FeatureSets : \E sl \in SetSeqLen : \E enforce \in BOOLEAN :
           dataset_new(Xin, TargetsOf(Xin), sl, enforce)
    \/ dataset_len
    \/ \E idx \in 0..MaxRows : dataset_getitem(idx)
    \/ dataset_drop

SpecDataset == InitDataset /\ [][NextDataset]_vars

\* The global cities, a sorted list of names.
Cities == <<"Beijing", "Shanghai">>

\* The fitted StandardScaler on a test array: each feature shifted by the
\* training mean, taken to be 1, over a unit deviation.
Scaled(Xt) == [i \in 1..Len(Xt) |-> [c \in 1..Len(Xt[i]) |-> Xt[i][c] - 1]]

\* np.zeros(X_test.shape[0]), as rows
ZeroTargets(Xt) == [i \in 1..Len(Xt) |-> <<0>>]

\* The networks the training loop arrives at: a weight per city.
SetWeights == [1..Len(Cities) -> {1, 2}]

\* nnet(X) on a batch of one window: the LSTM's output at row j depends on
\* the rows 1..j of the window; the result has the shape (1, seq_len, 1).
Net(w, win) ==
    << [j \in 1..Len(win) |-> <<w * SumTo([k \in 1..Len(win) |-> win[k][1]], j) + 1>>] >>

\* np.concatenate(batches).reshape(-1), every batch of shape (1, seq_len, 1)
RECURSIVE Flatten(_)
Flatten(batches) ==
    IF batches = <<>> THEN <<>>
    ELSE [j \in 1..Len(batches[1][1]) |-> batches[1][1][j][1]] \o Flatten(Tail(batches))

\* v[:stop], a negative stop counting from the end
SliceTo(v, stop) ==
    LET e == IF stop < 0 THEN Len(v) + stop ELSE stop
        m == IF e < 0 THEN 0 ELSE IF e > Len(v) THEN Len(v) ELSE e
    IN  [j \in 1..m |-> v[j]]

\* np.exp, kept as the application to its argument
Exp(v) == [exp |-> v]

\* make_lstm_preds(df_train, df_test, batch_size, seq_len, n_epochs): preds = {}
make_lstm_preds_call(tests, sl, ws) ==
    /\ pm_pc = "idle"
    /\ ds = None
    /\ df_test' = tests /\ pm_seq_len' = sl /\ pm_weight' = ws
    /\ preds' = <<>>
    /\ pm_city' = 1
    /\ pm_pc' = "city"
    /\ UNCHANGED <<beside_pm, ds, ds_args, ds_len, ds_idx, ds_item, dsy, pm_it, y_pred, pm_ret>>

\* for city in cities: ... dsy = PMDataset(X_test, zeros, seq_len, enforce_shape=True),
\* the network fitted, y_pred = []
make_lstm_preds_city ==
    /\ pm_pc = "city"
    /\ pm_city <= Len(Cities)
    /\ LET X_test == Scaled(df_test[pm_city])
       IN  dsy' = PMDataset(X_test, ZeroTargets(X_test), pm_seq_len, TRUE)
    /\ y_pred' = <<>>
    /\ pm_it' = 0
    /\ pm_pc' = "predict"
    /\ UNCHANGED <<beside_pm, ds, ds_args, ds_len, ds_idx, ds_item, pm_seq_len, df_test,
                   pm_city, pm_weight, preds, pm_ret>>

\* for X, y in dly: y_pred.append(nnet(X).cpu().numpy())
make_lstm_preds_predict ==
    /\ pm_pc = "predict"
    /\ pm_it < PMDataset_len(dsy)
    /\ y_pred' = Append(y_pred, Net(pm_weight[pm_city], PMDataset_getitem(dsy, pm_it)[1]))
    /\ pm_it' = pm_it + 1
    /\ UNCHANGED <<beside_pm, ds, ds_args, ds_len, ds_idx, ds_item, pm_pc, pm_seq_len,
                   df_test, pm_city, pm_weight, dsy, preds, pm_ret>>

\* y_pred = np.concatenate(y_pred).reshape(-1)[:-dsy.added]; preds[city] = np.exp(y_pred)
make_lstm_preds_cut ==
    /\ pm_pc = "predict"
    /\ pm_it >= PMDataset_len(dsy)
    /\ LET cut == SliceTo(Flatten(y_pred), -dsy.added)
       IN  preds' = Append(preds, <<Cities[pm_city], [k \in 1..Len(cut) |-> Exp(cut[k])]>>)
    /\ pm_city' = pm_city + 1
    /\ pm_pc' = "city"
    /\ UNCHANGED <<beside_pm, ds, ds_args, ds_len, ds_idx, ds_item, pm_seq_len, df_test,
                   pm_weight, dsy, pm_it, y_pred, pm_ret>>

\* return preds
make_lstm_preds_return ==
    /\ pm_pc = "city"
    /\ pm_city > Len(Cities)
    /\ pm_ret' = preds
    /\ pm_pc' = "done"
    /\ UNCHANGED <<beside_pm, ds, ds_args, ds_len, ds_idx, ds_item, pm_seq_len, df_test,
                   pm_city, pm_weight, dsy, pm_it, y_pred, preds>>

\* The caller is done with the predictions.
make_lstm_preds_release ==
    /\ pm_pc = "done"
    /\ pm_pc' = "idle" /\ pm_seq_len' = 0 /\ df_test' = <<>> /\ pm_city' = 0
    /\ pm_weight' = 0 /\ dsy' = None /\ pm_it' = 0 /\ y_pred' = <<>> /\ preds' = <<>>
    /\ pm_ret' = None
    /\ UNCHANGED <<beside_pm, ds, ds_args, ds_len, ds_idx, ds_item>>

NextPreds ==
    \/ \E tests \in [1..Len(Cities) -> FeatureSets] : \E sl \in SetSeqLen :
       \E ws \in SetWeights : make_lstm_preds_call(tests, sl, ws)
    \/ make_lstm_preds_city
    \/ make_lstm_preds_predict
    \/ make_lstm_preds_cut
    \/ make_lstm_preds_return
    \/ make_lstm_preds_release

SpecPreds == InitDataset /\ [][NextPreds]_vars

\* ----------------------------------------------------------------- claims
\* The update rule as the specification writes it, entry i of
\* leak_rate * x + (1 - leak_rate) * tanh(A @ x + C @ z + bias).
DrivenStep(x, z) ==
    [i \in 1..Len(x) |->
        RoundDiv(alpha * x[i]
                 + (Q - alpha) * Tanh(Dot(A[i], x) + Dot(C[i], z) + zeta[i]), Q)]

\* The bootstrap as the specification writes it:
\* (1 - leak_rate) * tanh(C @ z + bias).
BootstrapStep(z) ==
    [i \in 1..Len(zeta) |-> RoundDiv((Q - alpha) * Tanh(Dot(C[i], z) + zeta[i]), Q)]

\* x @ M written out: entry j is the sum over i of x[i] * M[i][j].
Readout(x, M) ==
    [j \in 1..NCols(M) |-> SumTo([i \in 1..Len(x) |-> x[i] * M[i][j]], Len(x))]

\* esn_collect has returned a trajectory to its caller.
CollectReturned == op = "collect" /\ pc = "done"

\* esn_auto has returned (Xh, Yh) to its caller.
AutoReturned == op = "auto" /\ pc = "done"

\* esn_fit has returned (W_hat, X, Y_fit, Error) to its caller.
FitReturned == op = "fit" /\ pc = "done"

\* C1: for every t > 0 of a returned trajectory, state[t] is the update rule
\* applied to state[t-1] and the input at the same index t.
C1_StepUsesCurrentInput ==
    CollectReturned =>
        \A k \in 1..(Len(ret) - 1) : Row(ret, k) = DrivenStep(Row(ret, k - 1), Row(Z, k))

\* C1 witness: a returned trajectory of three states over three distinct
\* inputs, in which using the previous input instead would change state[1].
C1_Witness ==
    /\ CollectReturned
    /\ Len(ret) = 3
    /\ Row(Z, 0) # Row(Z, 1) /\ Row(Z, 1) # Row(Z, 2)
    /\ Row(ret, 1) # DrivenStep(Row(ret, 0), Row(Z, 0))
    /\ Row(ret, 2) # DrivenStep(Row(ret, 1), Row(Z, 1))

\* C2: the first state of a returned trajectory is
\* (1 - leak_rate) * tanh(C @ input[0] + bias).
C2_FirstStateFromInput0 ==
    CollectReturned => Row(ret, 0) = BootstrapStep(Row(Z, 0))

\* C3: every esn_collect call on a non-empty input sequence returns, and
\* returns as many states as the sequence has time steps.
C3_EqualLength ==
    (op = "collect" /\ pc \in {"done", "raised"} /\ Len(Z) >= 1) =>
        (pc = "done" /\ Len(ret) = Len(Z))

\* C4: every entry of the state array, at every point of a collection and in
\* the returned trajectory, lies in [-1, 1] (= [-Q, Q] on the grid).
C4_StatesBounded ==
    /\ \A i \in 1..Len(X) : \A j \in 1..Len(X[i]) : X[i][j] \in (-Q)..Q
    /\ CollectReturned =>
           \A i \in 1..Len(ret) : \A j \in 1..Len(ret[i]) : ret[i][j] \in (-Q)..Q

\* C4 witness: a returned trajectory that reaches the bound: some
\* pre-activation lies beyond 1 and the stored entry is exactly +-1.
C4_Witness ==
    /\ CollectReturned
    /\ \E k \in 1..(Len(ret) - 1) : \E j \in 1..Dx :
           /\ Abs(Row(ret, k)[j]) = Q
           /\ Abs(Dot(A[j], Row(ret, k - 1)) + Dot(C[j], Row(Z, k)) + zeta[j]) > Q

\* C5: in a returned forecast, for every t >= 1, state[t] is what the driven
\* update rule produces from state[t-1] with output[t-1] as the input.
C5_AutoIsFedBackCollect ==
    AutoReturned =>
        \A k \in 1..(h - 1) :
            Row(ret[1], k) = DrivenStep(Row(ret[1], k - 1), Row(ret[2], k - 1))

\* C5 witness: a returned forecast of at least two states whose feedback
\* term C @ output[0] is not zero and changes state[1].
C5_Witness ==
    /\ AutoReturned
    /\ h >= 2
    /\ MatVec(C, Row(ret[2], 0)) # [i \in 1..Dx |-> 0]
    /\ Row(ret[1], 1) # DrivenStep(Row(ret[1], 0), [j \in 1..NCols(C) |-> 0])

\* C6: a forecast starts at the seed: state[0] = seed_state and
\* output[0] = seed_state @ weights; with horizon 1 that pair is the whole
\* result and no recurrence step has run.
C6_StartsAtSeed ==
    /\ (op = "auto" /\ pc \in {"auto_loop", "done"}) =>
           (Row(Xh, 0) = X0 /\ Row(Yh, 0) = Readout(X0, W))
    /\ (AutoReturned /\ h = 1) =>
           (ret = << <<X0>>, <<Readout(X0, W)>> >> /\ iters = 0)

\* C6 witness: a returned forecast of horizon 1 from a seed that one
\* recurrence step would move, with a non-zero output.
C6_Witness ==
    /\ AutoReturned
    /\ h = 1
    /\ AutoUpdate(X0) # X0
    /\ Readout(X0, W) # <<0>>

\* C7: a returned forecast holds exactly horizon states and horizon outputs,
\* after exactly horizon - 1 recurrence steps; a call with a positive horizon
\* and a defined fold raises nothing.
C7_HorizonPairs ==
    /\ AutoReturned => (Len(ret[1]) = h /\ Len(ret[2]) = h /\ iters = h - 1)
    /\ (op = "auto" /\ h >= 1 /\ FoldDefined(W)) => exc = "none"

\* C7 witness: a returned forecast of the largest horizon.
C7_Witness == AutoReturned /\ h = MaxH /\ h >= 3 /\ iters = MaxH - 1

\* C8: in a returned forecast, output[t] = state[t] @ weights at every index t.
C8_OutputsAligned ==
    AutoReturned =>
        \A k \in 0..(h - 1) : Row(ret[2], k) = Readout(Row(ret[1], k), W)

\* C8 witness: a returned forecast whose outputs at indices 0 and 1 differ,
\* so an output taken from the neighbouring state would be wrong.
C8_Witness ==
    /\ AutoReturned
    /\ h >= 2
    /\ Readout(Row(ret[1], 0), W) # Readout(Row(ret[1], 1), W)

\* C9: the returned weights W = num / den solve
\* (S^T S + T * penalty * I) W = S^T Y, S the returned state matrix with T rows.
C9_RidgeNormalEquations ==
    FitReturned =>
        LET S == ret[2]
            num == ret[1][1]
            den == ret[1][2]
            G == [i \in 1..NCols(S) |-> [j \in 1..NCols(S) |->
                     Dot(Transpose(S)[i], Transpose(S)[j])
                     + (IF i = j THEN Len(S) * L ELSE 0)]]
        IN  /\ den # 0
            /\ MatMul(G, num) = MatScale(den, MatMul(Transpose(S), Y))

\* C9 witness: a returned fit with a positive penalty, at least two time
\* steps and non-zero weights.
C9_Witness ==
    /\ FitReturned
    /\ L > 0
    /\ Len(ret[2]) >= 2
    /\ \E i \in 1..Len(ret[1][1]) : ret[1][1][i][1] # 0

\* The Gram matrix S^T S of the collected states.
Gram == MatMul(Transpose(X), X)

TrueWeights ==
    { << <<<<a>>, <<b>>>>, d >> : a \in (-2)..2, b \in (-2)..2, d \in 1..2 }

\* The targets are exactly S @ W_true for the state matrix S and wt = num / den.
GeneratedBy(S, wt) == MatScale(wt[2], Y) = MatMul(S, wt[1])

\* C11: when the targets are exactly S @ W_true and the penalty is 0, the
\* returned weights are W_true and every residual is zero (S has full rank
\* whenever esn_fit returns with penalty 0).
C11_ExactRecovery ==
    (FitReturned /\ L = 0) =>
        \A wt \in TrueWeights :
            GeneratedBy(ret[2], wt) =>
                /\ MatScale(wt[2], ret[1][1]) = MatScale(ret[1][2], wt[1])
                /\ \A i \in 1..Len(ret[4][1]) : ret[4][1][i] = <<0>>

\* C11 witness: a returned fit with penalty 0 over three time steps whose
\* targets are S @ W_true for a non-zero W_true.
C11_Witness ==
    /\ FitReturned /\ L = 0
    /\ Len(ret[2]) = 3
    /\ \E wt \in TrueWeights : GeneratedBy(ret[2], wt) /\ wt[1] # <<<<0>>, <<0>>>>

\* C12: an esn_auto call whose readout has a different number of columns
\* (outputs) than C (inputs) has raised ValueError, the fold's dimension
\* error, with no state or output array and no return value.
C12_FoldMismatchRaises ==
    (op = "auto" /\ NCols(C) # NCols(W)) =>
        (pc = "raised" /\ exc = "ValueError" /\ Xh = None /\ Yh = None /\ ret = None)

\* C12 witness: esn_auto called with a positive horizon, one input column
\* and two output columns has raised.
C12_Witness ==
    /\ op = "auto" /\ pc = "raised" /\ exc = "ValueError"
    /\ h >= 1
    /\ NCols(C) = 1 /\ NCols(W) = 2

\* C13: an esn_collect call whose input vectors have a different number of
\* entries than C has columns has raised ValueError, the dimension error,
\* and has returned nothing.
C13_InputMismatchRaises ==
    (op = "collect" /\ pc # "collect_first" /\ NCols(Z) # NCols(C)) =>
        (pc = "raised" /\ exc = "ValueError" /\ ret = None)

\* The arguments a call was made with: the input sequence, the targets, the
\* penalty, the seed state, the horizon and the readout weights.
arguments == <<Z, Y, L, X0, h, W>>

\* C18: no step of esn_collect, esn_fit or esn_auto changes the reservoir
\* (A, C, zeta, alpha), and from the entry of a call to its return or
\* exception the call's arguments keep the values they were passed with; the
\* folded matrix is the new value R.
C18_ArgumentsUnchanged ==
    [][ /\ UNCHANGED <<beside_esn, reservoir>>
        /\ (pc # "idle" /\ pc' # "idle") => UNCHANGED arguments ]_vars

C18_Witness ==
    /\ AutoReturned /\ h >= 2
    /\ R # A
    /\ ret[1] # Zeros(h, Dx)

\* tau / delta_t rounded to the nearest whole number, halves to the even one
\* (Python's round).
Round(p, q) ==
    LET f == p \div q
        r2 == 2 * (p % q)
    IN  IF r2 < q THEN f
        ELSE IF r2 > q THEN f + 1
        ELSE IF f % 2 = 0 THEN f ELSE f + 1

\* C20: whenever mackey_glass is about to compute x[t], the index it reads
\* the delayed value at is t - round(tau / delta_t), or 0 when that is
\* negative.
C20_DelayIndexRounded ==
    (mg_pc = "update") =>
        delay_index = (IF mg_t - Round(tau, delta_t) > 0
                       THEN mg_t - Round(tau, delta_t) ELSE 0)

\* k is the operator 2-norm of M (one or two columns): k >= 0, k * k is an
\* eigenvalue of M.T @ M and no eigenvalue is larger.
IsNorm2(M, k) ==
    LET G == MatMul(Transpose(M), M)
        S == MatAdd(G, MatScale(-(k * k), Eye(NCols(M))))
    IN  /\ k >= 0
        /\ Det(S) = 0
        /\ NCols(M) = 2 => S[1][1] + S[2][2] <= 0

\* The operator 2-norm of the fraction F = <<numerators, denominator>> is
\* target / Tenth.
HasNorm(F, target) ==
    LET k == (target * F[2]) \div Tenth
    IN  /\ k * Tenth = target * F[2]
        /\ IsNorm2(F[1], k)

C16_SameSeedSameReservoir ==
    (ri_pc = "done" /\ first[1] = <<ri_Dx, rho, ri_gamma>>) =>
        first[2] = <<ri_A, ri_C, ri_zeta>>

C16_Witness ==
    /\ ri_pc = "done" /\ first[1] = <<ri_Dx, rho, ri_gamma>>
    /\ between = "other_then_same"
    /\ ri_Dx = 2 /\ ri_A[2] # 0

\* C17: after a construction whose drawn A and C have non-zero norms, the
\* operator 2-norm of the returned A is rho and that of the returned C is
\* gamma.
C17_NormsEqualTargets ==
    (ri_pc = "done" /\ ri_A[2] # 0 /\ ri_C[2] # 0) =>
        (HasNorm(ri_A, rho) /\ HasNorm(ri_C, ri_gamma))

C17_Witness ==
    /\ ri_pc = "done" /\ ri_A[2] # 0 /\ ri_C[2] # 0
    /\ ri_Dx = 2 /\ rho = 11 /\ ri_gamma = 30
    /\ ri_A[1][1][1] # ri_A[1][2][2]

\* Every entry of the array M is a finite number.
AllFinite(M) == \A i \in 1..Len(M) : \A j \in 1..Len(M[i]) : IsFinite(M[i][j])

\* C15: every state and output esn_auto returns is finite (a call that
\* produced inf or nan has failed instead of returning).
C15_ReturnsFinite ==
    AutoReturned => (AllFinite(ret[1]) /\ AllFinite(ret[2]))

\* What esn_collect(Zin, ...) returns when it runs alone.
CollectAlone(Zin) ==
    LET rows[k \in 0..(NRows(Zin) - 1)] ==
            IF k = 0 THEN FirstState(Row(Zin, FirstIndex))
            ELSE CollectUpdate(rows[k - 1], Row(Zin, k))
    IN  [k \in 1..NRows(Zin) |-> rows[k - 1]]

\* What esn_auto(X0in, hin, ..., Win) returns when it runs alone.
AutoAlone(X0in, hin, Win) ==
    LET rows[k \in 0..(hin - 1)] ==
            IF k = 0 THEN X0in ELSE AutoStep(AutonomousMatrix(Win), rows[k - 1])
    IN  << [k \in 1..hin |-> rows[k - 1]],
           [k \in 1..hin |-> FVecMat(GridMax, rows[k - 1], Win)] >>

\* The call of worker i raises IndexError when it runs alone.
AloneRaises(i) ==
    IF w_op[i] = "collect" THEN ~InBounds(w_Z[i], FirstIndex) ELSE w_h[i] = 0

AloneResult(i) ==
    IF w_op[i] = "collect" THEN CollectAlone(w_Z[i])
    ELSE AutoAlone(w_X0[i], w_h[i], w_W[i])

\* C19: whatever the other worker did in the meantime, a call that returned
\* has returned what it returns alone, and a call that raised raises alone.
C19_SameAsAlone ==
    \A i \in Workers :
        /\ w_pc[i] = "done" => (~AloneRaises(i) /\ w_ret[i] = AloneResult(i))
        /\ w_pc[i] = "raised" => AloneRaises(i)

C19_Witness ==
    /\ w_pc[1] = "done" /\ w_op[1] = "collect" /\ Len(w_ret[1]) = 3
    /\ w_pc[2] = "done" /\ w_op[2] = "auto" /\ w_h[2] = 3
    /\ w_overlapped[1] /\ w_overlapped[2]
    /\ w_ret[1] # Zeros(3, Dx) /\ w_ret[2][1] # w_ret[1]

\* C23: an esn_auto call with h <= 0 has failed with an exception once it is
\* past its first statements: it has returned nothing and has stored no row.
C23_NonPositiveHorizonFails ==
    (op = "auto" /\ h <= 0 /\ pc # "auto_first") =>
        /\ pc = "raised" /\ exc \in {"IndexError", "ValueError"}
        /\ ret = None
        /\ Xh = None \/ Xh = Zeros(0, Dx)

C23_Witness ==
    /\ op = "auto" /\ h = 0 /\ pc = "raised" /\ exc = "IndexError"
    /\ X0 # <<0, 0>> /\ FoldDefined(W)

\* Zb holds the same inputs as Za at the indices 0..k.
AgreeUpTo(Za, Zb, k) ==
    /\ Len(Za) > k /\ Len(Zb) > k
    /\ \A j \in 0..k : Row(Za, j) = Row(Zb, j)

\* The first k rows of Zin.
Prefix(Zin, k) == [j \in 1..k |-> Zin[j]]

\* C25: state[k] of a returned trajectory is the state[k] of every other
\* input sequence with the same inputs at 0..k, and the first k states are
\* what esn_collect returns for the first k inputs alone.
C25_Causal ==
    CollectReturned =>
        /\ \A Zb \in InputSeqs : \A k \in 0..(Len(Z) - 1) :
               (AgreeUpTo(Z, Zb, k) /\ InBounds(Zb, FirstIndex)) =>
                   Row(ret, k) = Row(CollectAlone(Zb), k)
        /\ \A k \in 1..Len(Z) :
               /\ InBounds(Prefix(Z, k), FirstIndex)
               /\ CollectAlone(Prefix(Z, k)) = Prefix(ret, k)

\* C29: with a seed state in [-1, 1] and a leak rate in [0, 1], every entry
\* of every state esn_auto returns lies in [-1, 1] (-Q..Q on the grid).
C29_ForecastStatesBounded ==
    (AutoReturned /\ alpha \in 0..Q /\ \A i \in 1..Len(X0) : X0[i] \in (-Q)..Q) =>
        \A k \in 1..Len(ret[1]) : \A i \in 1..Len(ret[1][k]) :
            ret[1][k][i] \in (-Q)..Q

\* C28: whenever mackey_glass is about to compute x[t], the entry it reads
\* the delayed value from was computed in an earlier step: its index is at
\* most t - 1.
C28_DelayedValueComputed ==
    (mg_pc = "update") => (delay_index >= 0 /\ delay_index <= mg_t - 1)

\* The state the pipeline's model is in after m steps of feeding its own
\* output back, from the last collected state X[T-2].
RECURSIVE FedBack(_)
FedBack(m) ==
    IF m = 0 THEN X0
    ELSE DrivenStep(FedBack(m - 1), Readout(FedBack(m - 1), W))

\* The model's prediction of observation Y[j], j >= T-1.  The fit pairs the
\* state X[t] with the target Y_train_out[t] = Y[t+1], so the readout of the
\* last collected state X[T-2] is its value for Y[T-1], the last training
\* target, and each feedback step moves one observation on.
PredictionOf(j) == Readout(FedBack(j - (p_T - 1)), W)

\* C26: in the train-then-forecast pipeline, forecast output k is the
\* model's prediction of Y[T+k], the k-th test observation it is plotted
\* against, for every k in 0..h-1.
C26_ForecastAlignedWithTest ==
    (drawn # <<>>) =>
        \A k \in 1..Len(drawn) :
            /\ drawn[k][2] = Row(series, drawn[k][1])
            /\ drawn[k][3] = PredictionOf(drawn[k][1])

\* What the pipeline does plot: forecast output k is the prediction of
\* Y[T-1+k], one observation before the test observation beside it.
C26_ForecastOneEarly ==
    (drawn # <<>>) =>
        \A k \in 1..Len(drawn) :
            /\ drawn[k][2] = Row(series, drawn[k][1])
            /\ drawn[k][3] = PredictionOf(drawn[k][1] - 1)

\* lorenz_attractor has returned its three arrays.
LorenzReturned == lz_pc = "done"

\* The forward Euler successor of the point (xv, yv, zv): every increment is
\* taken at (xv, yv, zv) itself.
ForwardEuler(xv, yv, zv) ==
    << xv + RoundDiv(lz_delta_t * lz_sigma * (yv - xv), Tenth),
       yv + RoundDiv(lz_delta_t * (RoundDiv(xv * (lz_rho * Q - zv), Q) - yv), Tenth),
       zv + RoundDiv(lz_delta_t * (RoundDiv(xv * yv, Q) - lz_beta * zv), Tenth) >>

\* C21: lorenz_attractor returns three sequences of equal length whose
\* element 0 is the initial state, and each later point is the forward Euler
\* successor of the point before it: all three increments come from the
\* previous step's (x, y, z).
C21_ForwardEuler ==
    LorenzReturned =>
        /\ Len(lz_ret[1]) = lz_num_steps + 1
        /\ Len(lz_ret[2]) = Len(lz_ret[1])
        /\ Len(lz_ret[3]) = Len(lz_ret[1])
        /\ <<lz_ret[1][1], lz_ret[2][1], lz_ret[3][1]>> = initial_state
        /\ \A k \in 2..Len(lz_ret[1]) :
               <<lz_ret[1][k], lz_ret[2][k], lz_ret[3][k]>> =
                   ForwardEuler(lz_ret[1][k - 1], lz_ret[2][k - 1], lz_ret[3][k - 1])

\* C21 witness: a returned trajectory of at least two steps with a step at
\* which x moved and the new x would have given another dy than the old one.
C21_Witness ==
    /\ LorenzReturned
    /\ lz_num_steps >= 2
    /\ \E k \in 2..Len(lz_ret[1]) :
           /\ lz_ret[1][k] # lz_ret[1][k - 1]
           /\ RoundDiv(lz_ret[1][k] * (lz_rho * Q - lz_ret[3][k - 1]), Q)
                  # RoundDiv(lz_ret[1][k - 1] * (lz_rho * Q - lz_ret[3][k - 1]), Q)

\* nonlin_ar has returned (X, E) to its caller.
NarReturned == nar_pc = "done"

\* The map of the recursion, 2*x / (1 + 0.8*x^2), on the grid.
NonlinMap(v) == RoundDiv(10 * v * GridX * GridX, 5 * GridX * GridX + 4 * v * v)

\* C22: nonlin_ar(n, init) runs X[t] = 2*X[t-1] / (1 + 0.8*X[t-1]^2) + E[t]
\* over n + init time indices from X = 0, returns what follows the first
\* init values, n values of X and n of E, and for every returned k >= 1,
\* X[k] - E[k] = 2*X[k-1] / (1 + 0.8*X[k-1]^2).
C22_NonlinArAligned ==
    NarReturned =>
        /\ Len(nar_X) = nar_n + nar_init /\ Len(nar_E) = nar_n + nar_init
        /\ Item(nar_X, 0) = 0
        /\ \A k \in 1..(nar_n + nar_init - 1) :
               Item(nar_X, k) = NonlinMap(Item(nar_X, k - 1)) + Item(nar_E, k)
        /\ Len(nar_ret[1]) = nar_n /\ Len(nar_ret[2]) = nar_n
        /\ \A k \in 0..(nar_n - 1) :
               /\ Item(nar_ret[1], k) = Item(nar_X, nar_init + k)
               /\ Item(nar_ret[2], k) = Item(nar_E, nar_init + k)
        /\ \A k \in 1..(nar_n - 1) :
               Item(nar_ret[1], k) - Item(nar_ret[2], k)
                   = NonlinMap(Item(nar_ret[1], k - 1))

\* C22 witness: a returned call with a burn-in and at least two returned
\* values, where consecutive noises differ and the map's value is not zero.
C22_Witness ==
    /\ NarReturned
    /\ nar_init >= 1 /\ nar_n >= 2
    /\ \E k \in 1..(nar_n - 1) :
           /\ Item(nar_ret[2], k) # Item(nar_ret[2], k - 1)
           /\ NonlinMap(Item(nar_ret[1], k - 1)) # 0

\* ar_process has returned its array.
ArReturned == ar_pc = "done"

\* phi_1*y_{t-1} + ... + phi_p*y_{t-p}, entry k of ph on lag k.
LagK(ph, v, i) == SumTo([k \in 1..Len(ph) |-> ph[k] * Item(v, i - k)], Len(ph))

\* Entry k of ph on lag p - k + 1: the first entry on the oldest lag.
LagReversed(ph, v, i) ==
    SumTo([k \in 1..Len(ph) |-> ph[k] * Item(v, i - (Len(ph) - k + 1))], Len(ph))

\* C24: ar_process(phi, sigma, n) returns exactly n values of
\* y_t = phi_1*y_{t-1} + ... + phi_p*y_{t-p} + eps_t, phi_k the k-th entry of
\* phi (the first entry on the most recent lag), for every p = len(phi) >= 1.
C24_ArLagOrder ==
    ArReturned =>
        /\ Len(ar_ret) = ar_n
        /\ \A k \in 0..(ar_n - 1) :
               LET i == Len(ar_phi) + k
               IN  Row(ar_ret, k) = <<LagK(ar_phi, ar_y, i) + Item(ar_noise, i)>>

\* What ar_process does return: n values of the recursion with the entries
\* of phi taken in reverse, phi_k on lag p - k + 1.
C24_ArLagReversed ==
    ArReturned =>
        /\ Len(ar_ret) = ar_n
        /\ \A k \in 0..(ar_n - 1) :
               LET i == Len(ar_phi) + k
               IN  Row(ar_ret, k) = <<LagReversed(ar_phi, ar_y, i) + Item(ar_noise, i)>>

\* Rows a+1 .. a+k of M.
RowsAt(M, a, k) == [j \in 1..k |-> M[a + j]]

\* A PMDataset built with enforce_shape=True exists.
EnforcedDataset == ds # None /\ ds_args[4]

\* C30: PMDataset built with enforce_shape=True on N >= 1 rows pads with
\* zero rows up to the smallest multiple of seq_len that is >= N, records
\* added = padded length - N with 0 <= added < seq_len, and its items
\* 0..len-1 are windows of exactly seq_len rows, consecutive and disjoint,
\* covering every padded row once, X and y windows at the same rows.
C30_PaddedWindows ==
    EnforcedDataset =>
        LET Xin == ds_args[1]
            yin == ds_args[2]
            N == Len(Xin)
            P == Len(ds.X)
            s == ds.seq_len
        IN  /\ P % s = 0 /\ P >= N /\ P - N < s
            /\ Len(ds.y) = P
            /\ ds.added = P - N /\ ds.added >= 0 /\ ds.added < s
            /\ \A j \in 1..N : ds.X[j] = Xin[j] /\ ds.y[j] = yin[j]
            /\ \A j \in (N + 1)..P :
                   /\ ds.X[j] = [c \in 1..Len(Xin[1]) |-> 0]
                   /\ ds.y[j] = <<0>>
            /\ PMDataset_len(ds) * s = P
            /\ ds_len # -1 => ds_len * s = P
            /\ \A idx \in 0..(PMDataset_len(ds) - 1) :
                   PMDataset_getitem(ds, idx)
                       = <<RowsAt(ds.X, idx * s, s), RowsAt(ds.y, idx * s, s)>>
            /\ ds_item # None =>
                   ds_item = <<RowsAt(ds.X, ds_idx * s, s), RowsAt(ds.y, ds_idx * s, s)>>

\* C30 witness: a padded dataset of at least two windows whose length was
\* asked and whose last window, part data and part padding, was fetched.
C30_Witness ==
    /\ EnforcedDataset
    /\ ds.added > 0
    /\ ds_len >= 2
    /\ ds_idx = ds_len - 1
    /\ ds_item # None
    /\ ds_item[1][1] # ds_item[1][ds.seq_len]

\* make_lstm_preds has returned its predictions.
PredsReturned == pm_pc = "done"

\* The test rows of city c as the network sees them, zero rows after them.
PaddedRow(c, k) ==
    IF k <= Len(df_test[c]) THEN Scaled(df_test[c])[k]
    ELSE [f \in 1..Len(df_test[c][1]) |-> 0]

\* The prediction for test row k (1-based) of city c: the network's output
\* at the row's place in the window of seq_len rows the row falls in.
PredictionFor(c, k) ==
    LET start == ((k - 1) \div pm_seq_len) * pm_seq_len + 1
        seen == [j \in 1..(k - start + 1) |-> PaddedRow(c, start + j - 1)[1]]
    IN  Exp(pm_weight[c] * SumTo(seen, Len(seen)) + 1)

\* C27: make_lstm_preds returns, for every city, exactly one prediction per
\* test row of that city, in row order, for every N >= 1 and every
\* seq_len >= 1, N a multiple of seq_len included.
C27_OnePredictionPerRow ==
    PredsReturned =>
        /\ Len(pm_ret) = Len(Cities)
        /\ \A c \in 1..Len(Cities) :
               /\ pm_ret[c][1] = Cities[c]
               /\ Len(pm_ret[c][2]) = Len(df_test[c])
               /\ \A k \in 1..Len(pm_ret[c][2]) : pm_ret[c][2][k] = PredictionFor(c, k)

\* What make_lstm_preds does return: the predictions in row order, one per
\* row for a city whose row count is not a multiple of seq_len, none at all
\* for a city whose row count is a multiple of seq_len.
C27_NoneWhenMultiple ==
    PredsReturned =>
        /\ Len(pm_ret) = Len(Cities)
        /\ \A c \in 1..Len(Cities) :
               /\ pm_ret[c][1] = Cities[c]
               /\ Len(pm_ret[c][2]) =
                      IF Len(df_test[c]) % pm_seq_len = 0 THEN 0 ELSE Len(df_test[c])
               /\ \A k \in 1..Len(pm_ret[c][2]) : pm_ret[c][2][k] = PredictionFor(c, k)

====
